---- MODULE Spec2Model ----
(***************************************************************************)
(* BetterChordStacks: the chord-transition engine of PluginProcessor.cpp   *)
(* (Chord, the two voice-mapping strategies, MPEVoiceAllocator,            *)
(* GlidingVoice and ChordTransitionEngine) as a state machine.             *)
(*                                                                         *)
(* An optional<T> is a sequence of length 0 (absent) or 1 (present).       *)
(* A float pitch bend is kept as the exact fraction <<numerator,           *)
(* denominator>> of the value the code computes.                           *)
(***************************************************************************)
EXTENDS Integers, Sequences, FiniteSets, TLC

(***************************************************************************)
(* Bounds of the exploration.                                              *)
(***************************************************************************)
MaxPitch == 2
MaxGroup == 2
MaxBlock == 2
MaxTime == 4
MaxLookahead == 1
MaxOnItems == 1
MaxOffItems == 1
MaxMapLen == 3
MaxRandomLen == 3
MaxChordPitch == 4
MaxChordLen == 3
MaxGlideDuration == 4
MaxGlideStart == 1
MaxLongBlock == 10
MaxReleaseIndex == 2
MaxProcTime == 2
MaxBendExponent == 2
MaxSingleOns == 2
MaxOrderBlock == 3

(***************************************************************************)
(* Program constants.                                                      *)
(***************************************************************************)
FIRST_VOICE_CHANNEL == 2
LAST_VOICE_CHANNEL == 16
MAX_VOICES == LAST_VOICE_CHANNEL - FIRST_VOICE_CHANNEL + 1
PITCH_BEND_UPDATE_INTERVAL == 8
NOTE_ON_VELOCITY == 100
INT_MAX == 2147483647
DEFAULT_SAMPLE_RATE == 44100
DEFAULT_PITCH_BEND_RANGE == 12
GLIDE_TIME_MIN == 10
GLIDE_TIME_DEFAULT == 200
PITCH_BEND_RANGE_MIN == 1
PITCH_BEND_RANGE_MAX == 24

(***************************************************************************)
(* Input alphabets.                                                        *)
(***************************************************************************)
Pitches == 1..MaxPitch
Velocities == {100}
BlockSizes == 0..MaxBlock
Lookaheads == 0..MaxLookahead
SampleRates == {48000}
PitchBendRanges == {12}
Strategies == {"nearest", "random"}

SeqsUpTo(S, n) == UNION {[1..k -> S] : k \in 1..n}

\* A group of MAX_VOICES + 1 simultaneous note-ons: one pitch q and
\* MAX_VOICES copies of another pitch p (more notes than channels).
BigGroups ==
    {[i \in 1..(MAX_VOICES + 1) |-> IF i = 1 THEN pq[2] ELSE pq[1]] :
        pq \in {x \in Pitches \X Pitches : x[1] /= x[2]}}

Groups == SeqsUpTo(Pitches, MaxGroup) \cup BigGroups

\* Groups of simultaneous note-ons of distinct pitches for a first chord:
\* the short ones, and two that take every voice channel (pitches
\* descending, and rotated).
FullGroups ==
    {[i \in 1..MAX_VOICES |-> MAX_VOICES + 1 - i],
     [i \in 1..MAX_VOICES |-> ((i + 6) % MAX_VOICES) + 1]}

ChordGroups ==
    {g \in SeqsUpTo(1..MaxChordPitch, MaxChordLen) :
        /\ Len(g) >= 2
        /\ \A i, j \in 1..Len(g) : i /= j => g[i] /= g[j]}
    \cup FullGroups

\* Pitch lists handed to the mapping strategies on their own.
MapPitches == {60, 61, 63}
ScenarioBSource == <<60, 64, 67>>
ScenarioBTarget == <<62, 65, 69>>
MapLists == SeqsUpTo(MapPitches, MaxMapLen)
MapInputs == (MapLists \X MapLists) \cup {<<ScenarioBSource, ScenarioBTarget>>}

(***************************************************************************)
(* Small helpers.                                                          *)
(***************************************************************************)
Abs(x) == IF x < 0 THEN -x ELSE x

\* juce::jlimit(lo, hi, v)
jlimit(lo, hi, v) == IF v < lo THEN lo ELSE IF hi < v THEN hi ELSE v

\* static_cast<int>(int64_t): values outside [-INT_MAX-1, INT_MAX] wrap
\* modulo 2^32.
ToInt32(x) ==
    IF x >= -INT_MAX - 1 /\ x <= INT_MAX THEN x
    ELSE ((x + INT_MAX + 1) % (2 * (INT_MAX + 1))) - INT_MAX - 1

HasValue(o) == o /= <<>>
Value(o) == o[1]
Absent == <<>>
Present(x) == <<x>>

RECURSIVE Pow2(_)
Pow2(n) == IF n = 0 THEN 1 ELSE 2 * Pow2(n - 1)

RECURSIVE SumSeq(_)
SumSeq(s) == IF s = <<>> THEN 0 ELSE Head(s) + SumSeq(Tail(s))

\* Number of occurrences of x in the sequence s.
Count(s, x) == Cardinality({i \in 1..Len(s) : s[i] = x})

(***************************************************************************)
(* Note and Chord.                                                         *)
(***************************************************************************)
Note(p, v, t) == [pitch |-> p, velocity |-> v, timestamp |-> t]

\* Note::operator<
NoteLess(a, b) == a.pitch < b.pitch

\* std::sort over notes by operator<: insertion of each element behind the
\* elements not greater than it.
RECURSIVE InsertNote(_, _)
InsertNote(sorted, n) ==
    IF sorted = <<>> THEN <<n>>
    ELSE IF NoteLess(n, Head(sorted)) THEN <<n>> \o sorted
    ELSE <<Head(sorted)>> \o InsertNote(Tail(sorted), n)

\* A constructor that keeps the notes in arrival order.
SortNotes_ArrivalOrder(notes) == notes

RECURSIVE SortNotes(_)
SortNotes(notes) ==
    IF notes = <<>> THEN <<>>
    ELSE InsertNote(SortNotes(Tail(notes)), Head(notes))

\* Chord::Chord(notes, ts)
Chord(notes, ts) == [notes |-> SortNotes(notes), timestamp |-> ts]

\* Chord::removeNote
removeNote(chord, pitch) ==
    [chord EXCEPT !.notes = SelectSeq(chord.notes, LAMBDA n : n.pitch /= pitch)]

\* Chord::containsNote
containsNote(chord, pitch) == \E i \in 1..Len(chord.notes) : chord.notes[i].pitch = pitch

\* Chord::addNote
addNote(chord, note) ==
    IF containsNote(chord, note.pitch) THEN chord
    ELSE [chord EXCEPT !.notes = SortNotes(Append(chord.notes, note))]

\* A chord that never counts as empty.
isEmpty_Never(chord) == FALSE

\* Chord::isEmpty
isEmpty(chord) == chord.notes = <<>>

\* Chord::getPitches
getPitches(chord) == [i \in 1..Len(chord.notes) |-> chord.notes[i].pitch]

(***************************************************************************)
(* NearestNoteMapping::map.  A mapping is a sequence of pairs              *)
(* <<source pitch, sequence of target pitches>>.                           *)
(***************************************************************************)
\* The inner loop of both passes: index of the first element of list at
\* minimal distance from x (strict < keeps the earlier index on ties).
RECURSIVE NearestIdx(_, _, _, _, _)
NearestIdx(x, list, j, bestIdx, minDist) ==
    IF j > Len(list) THEN bestIdx
    ELSE LET dist == Abs(x - list[j])
         IN IF dist < minDist
            THEN NearestIdx(x, list, j + 1, j, dist)
            ELSE NearestIdx(x, list, j + 1, bestIdx, minDist)

Nearest(x, list) == NearestIdx(x, list, 2, 1, Abs(x - list[1]))

\* First pass: every source takes its nearest target.
NearestFirstPass(source, target) ==
    [i \in 1..Len(source) |-> <<source[i], <<target[Nearest(source[i], target)]>> >>]

NearestTargetUsed(source, target) ==
    [j \in 1..Len(target) |-> \E i \in 1..Len(source) : Nearest(source[i], target) = j]

\* Second pass: every target not taken goes to its nearest source.
RECURSIVE NearestSecondPass(_, _, _, _, _)
NearestSecondPass(mapping, source, target, targetUsed, i) ==
    IF i > Len(target) THEN mapping
    ELSE IF targetUsed[i] THEN NearestSecondPass(mapping, source, target, targetUsed, i + 1)
    ELSE LET s == Nearest(target[i], source)
         IN NearestSecondPass(
                [mapping EXCEPT ![s] = <<mapping[s][1], Append(mapping[s][2], target[i])>>],
                source, target, targetUsed, i + 1)

NearestNoteMap(source, target) ==
    IF source = <<>> \/ target = <<>> THEN <<>>
    ELSE NearestSecondPass(NearestFirstPass(source, target), source, target,
                           NearestTargetUsed(source, target), 1)

(***************************************************************************)
(* RandomMapping::map: the set of mappings the random choices can yield.   *)
(***************************************************************************)
RemoveAt(s, idx) == [k \in 1..(Len(s) - 1) |-> IF k < idx THEN s[k] ELSE s[k + 1]]

\* A first pass that makes no entry for a source when no target remains.
RECURSIVE RandomFirstPass_SkipUnassigned(_, _, _, _)
RandomFirstPass_SkipUnassigned(source, i, mapping, remaining) ==
    IF i > Len(source) THEN {<<mapping, remaining>>}
    ELSE IF remaining /= <<>>
         THEN UNION {RandomFirstPass_SkipUnassigned(
                         source, i + 1,
                         Append(mapping, <<source[i], <<remaining[idx]>> >>),
                         RemoveAt(remaining, idx)) :
                        idx \in 1..Len(remaining)}
         ELSE RandomFirstPass_SkipUnassigned(source, i + 1, mapping, remaining)

\* Initial 1-to-1 pass: each source pops one random remaining target, if any.
\* Yields the set of <<mapping, remainingTargets>>.
RECURSIVE RandomFirstPass(_, _, _, _)
RandomFirstPass(source, i, mapping, remaining) ==
    IF i > Len(source) THEN {<<mapping, remaining>>}
    ELSE IF remaining /= <<>>
         THEN UNION {RandomFirstPass(source, i + 1,
                                     Append(mapping, <<source[i], <<remaining[idx]>> >>),
                                     RemoveAt(remaining, idx)) :
                        idx \in 1..Len(remaining)}
         ELSE RandomFirstPass(source, i + 1, Append(mapping, <<source[i], <<>> >>), remaining)

\* A distribution that drops the targets left over by the first pass.
RandomDistribute_DropRemaining(mapping, remaining) == {mapping}

\* The while loop: the last remaining target goes to a random entry.
RECURSIVE RandomDistribute(_, _)
RandomDistribute(mapping, remaining) ==
    IF remaining = <<>> THEN {mapping}
    ELSE UNION {RandomDistribute(
                    [mapping EXCEPT ![srcIdx] =
                        <<mapping[srcIdx][1], Append(mapping[srcIdx][2], remaining[Len(remaining)])>>],
                    SubSeq(remaining, 1, Len(remaining) - 1)) :
                  srcIdx \in 1..Len(mapping)}

RandomMap(source, target) ==
    IF source = <<>> \/ target = <<>> THEN {<<>>}
    ELSE UNION {RandomDistribute(r[1], r[2]) : r \in RandomFirstPass(source, 1, <<>>, target)}

\* VoiceMappingStrategy::map dispatched on the strategy in use.
MapOutcomes(strategy, source, target) ==
    IF strategy = "nearest" THEN {NearestNoteMap(source, target)}
    ELSE RandomMap(source, target)

\* All targets of a mapping, entry after entry.
RECURSIVE MappingTargets(_)
MappingTargets(mapping) ==
    IF mapping = <<>> THEN <<>>
    ELSE Head(mapping)[2] \o MappingTargets(Tail(mapping))

(***************************************************************************)
(* MPEVoiceAllocator.  channelUsed is indexed 0..MAX_VOICES-1.             *)
(***************************************************************************)
AllChannelsFree == [i \in 0..(MAX_VOICES - 1) |-> FALSE]

FreeIndexes(used) == {i \in 0..(MAX_VOICES - 1) : ~used[i]}

\* An allocate() loop that runs from the last channel downwards.
AllocIndex_Highest(used) == CHOOSE i \in FreeIndexes(used) : \A k \in FreeIndexes(used) : i >= k

\* Index the allocate() loop stops at.
AllocIndex(used) == CHOOSE i \in FreeIndexes(used) : \A k \in FreeIndexes(used) : i <= k

\* An allocator that returns the free channel without marking it used.
allocate_NoMark(used) ==
    IF FreeIndexes(used) = {} THEN <<Absent, used>>
    ELSE <<Present(FIRST_VOICE_CHANNEL + AllocIndex(used)), used>>

\* An allocator that hands out the last channel again when none is free.
allocate_NeverFails(used) ==
    IF FreeIndexes(used) = {} THEN <<Present(LAST_VOICE_CHANNEL), used>>
    ELSE LET i == AllocIndex(used)
         IN <<Present(FIRST_VOICE_CHANNEL + i), [used EXCEPT ![i] = TRUE]>>

\* MPEVoiceAllocator::allocate: <<optional channel, channelUsed afterwards>>
allocate(used) ==
    IF FreeIndexes(used) = {} THEN <<Absent, used>>
    ELSE LET i == AllocIndex(used)
         IN <<Present(FIRST_VOICE_CHANNEL + i), [used EXCEPT ![i] = TRUE]>>

\* A release that flips the channel's flag instead of clearing it.
release_Toggle(used, channel) ==
    IF channel >= FIRST_VOICE_CHANNEL /\ channel <= LAST_VOICE_CHANNEL
    THEN [used EXCEPT ![channel - FIRST_VOICE_CHANNEL] = ~used[channel - FIRST_VOICE_CHANNEL]]
    ELSE used

\* MPEVoiceAllocator::release
release(used, channel) ==
    IF channel >= FIRST_VOICE_CHANNEL /\ channel <= LAST_VOICE_CHANNEL
    THEN [used EXCEPT ![channel - FIRST_VOICE_CHANNEL] = FALSE]
    ELSE used

\* MPEVoiceAllocator::getAvailableCount
getAvailableCount(used) == Cardinality(FreeIndexes(used))

UsedCount(used) == MAX_VOICES - getAvailableCount(used)

(***************************************************************************)
(* GlidingVoice.                                                           *)
(***************************************************************************)
\* GlidingVoice::GlidingVoice
GlidingVoice(channel, startPitch, targetPitch, startTime, durationSamples) ==
    [channel |-> channel,
     startPitch |-> startPitch,
     currentPitch |-> startPitch,
     targetPitch |-> targetPitch,
     currentPitchBend |-> <<0, 1>>,
     glideStartTime |-> startTime,
     lastPitchBendTime |-> 0,
     glideDurationSamples |-> durationSamples,
     isGliding |-> TRUE]

\* updateGlide without the completion branch: the bend follows the elapsed
\* time and the voice stays gliding.
updateGlide_NeverLands(v, currentTime) ==
    IF ~v.isGliding THEN v
    ELSE LET elapsed == currentTime - v.glideStartTime
             pitchDiff == v.targetPitch - v.startPitch
         IN [v EXCEPT !.currentPitchBend =
                IF v.glideDurationSamples > 0
                THEN <<pitchDiff * elapsed, v.glideDurationSamples>>
                ELSE <<pitchDiff, 1>>]

\* GlidingVoice::updateGlide
updateGlide(v, currentTime) ==
    IF ~v.isGliding THEN v
    ELSE LET elapsed == currentTime - v.glideStartTime
         IN IF elapsed >= v.glideDurationSamples
            THEN [v EXCEPT !.currentPitchBend = <<0, 1>>,
                           !.currentPitch = v.targetPitch,
                           !.isGliding = FALSE]
            ELSE LET pitchDiff == v.targetPitch - v.startPitch
                 IN [v EXCEPT !.currentPitchBend =
                        IF v.glideDurationSamples > 0
                        THEN <<pitchDiff * elapsed, v.glideDurationSamples>>
                        ELSE <<pitchDiff, 1>>]

\* GlidingVoice::hasReachedTarget
hasReachedTarget(v) == ~v.isGliding /\ v.currentPitch = v.targetPitch

\* GlidingVoice::shouldSendPitchBend
shouldSendPitchBend(v, currentTime) ==
    v.isGliding /\ currentTime - v.lastPitchBendTime >= PITCH_BEND_UPDATE_INTERVAL

(***************************************************************************)
(* Output events of a block (juce::MidiBuffer).                            *)
(***************************************************************************)
\* juce::MidiBuffer::addEvent keeps the buffer ordered by sample position;
\* an event goes behind the events already at its position.
addEvent(buffer, ev) ==
    LET before == SelectSeq(buffer, LAMBDA x : x.samplePosition <= ev.samplePosition)
        after == SelectSeq(buffer, LAMBDA x : x.samplePosition > ev.samplePosition)
    IN before \o <<ev>> \o after

\* ChordTransitionEngine::sendMidiNoteOn
sendMidiNoteOn(out, channel, pitch, velocity, sample) ==
    addEvent(out, [type |-> "noteOn", channel |-> channel, data1 |-> pitch,
                   data2 |-> velocity, samplePosition |-> sample])

\* ChordTransitionEngine::sendMidiNoteOff
sendMidiNoteOff(out, channel, pitch, sample) ==
    addEvent(out, [type |-> "noteOff", channel |-> channel, data1 |-> pitch,
                   data2 |-> 0, samplePosition |-> sample])

\* An encoding without the final clamp.
BendValue_Unclamped(semitones, range) ==
    LET num == semitones[1]
        den == semitones[2] * range
    IN IF num <= -den THEN 0
       ELSE IF num >= den THEN 16384
       ELSE (num * 8192 + 8192 * den) \div den

\* The 14-bit value of sendMidiPitchBend for semitones = num / den (den > 0)
\* and a pitch-bend range: clamp to [-1, 1], scale, truncate, clamp.
BendValue(semitones, range) ==
    LET num == semitones[1]
        den == semitones[2] * range
        raw == IF num <= -den THEN 0
               ELSE IF num >= den THEN 16384
               ELSE (num * 8192 + 8192 * den) \div den
    IN jlimit(0, 16383, raw)

\* ChordTransitionEngine::sendMidiPitchBend
sendMidiPitchBend(out, channel, semitones, sample, range) ==
    addEvent(out, [type |-> "pitchWheel", channel |-> channel,
                   data1 |-> BendValue(semitones, range),
                   data2 |-> 0, samplePosition |-> sample])

(***************************************************************************)
(* ChordTransitionEngine: the steps of processBufferedEvents on the        *)
(* record e = [channelUsed, activeVoices, currentChord, pendingChord,      *)
(* output] of the fields they change.                                      *)
(***************************************************************************)
VoiceMatches(v, pitch) == v.startPitch = pitch \/ v.currentPitch = pitch

\* A loop that sends the note-offs and releases no channel.
RECURSIVE StopVoices_NoRelease(_, _, _, _, _)
StopVoices_NoRelease(voices, pitch, localSample, used, out) ==
    IF voices = <<>> THEN <<used, out>>
    ELSE LET v == Head(voices)
         IN IF VoiceMatches(v, pitch)
            THEN StopVoices_NoRelease(Tail(voices), pitch, localSample, used,
                     sendMidiNoteOff(out, v.channel, v.currentPitch, localSample))
            ELSE StopVoices_NoRelease(Tail(voices), pitch, localSample, used, out)

\* The loop of handleNoteOff over the voices playing the pitch: a note-off
\* and a release for each.
RECURSIVE StopVoices(_, _, _, _, _)
StopVoices(voices, pitch, localSample, used, out) ==
    IF voices = <<>> THEN <<used, out>>
    ELSE LET v == Head(voices)
         IN IF VoiceMatches(v, pitch)
            THEN StopVoices(Tail(voices), pitch, localSample,
                            release(used, v.channel),
                            sendMidiNoteOff(out, v.channel, v.currentPitch, localSample))
            ELSE StopVoices(Tail(voices), pitch, localSample, used, out)

\* A handleNoteOff that leaves pendingChord alone when the chord empties.
handleNoteOff_KeepPending(e, pitch, localSample) ==
    IF ~HasValue(e.currentChord) THEN e
    ELSE LET chord == removeNote(Value(e.currentChord), pitch)
             stopped == StopVoices(e.activeVoices, pitch, localSample, e.channelUsed, e.output)
             kept == SelectSeq(e.activeVoices, LAMBDA v : ~VoiceMatches(v, pitch))
         IN IF isEmpty(chord)
            THEN [e EXCEPT !.currentChord = Absent,
                           !.activeVoices = <<>>,
                           !.channelUsed = stopped[1],
                           !.output = stopped[2]]
            ELSE [e EXCEPT !.currentChord = Present(chord),
                           !.activeVoices = kept,
                           !.channelUsed = stopped[1],
                           !.output = stopped[2]]

\* ChordTransitionEngine::handleNoteOff
handleNoteOff(e, pitch, localSample) ==
    IF ~HasValue(e.currentChord) THEN e
    ELSE LET chord == removeNote(Value(e.currentChord), pitch)
             stopped == StopVoices(e.activeVoices, pitch, localSample, e.channelUsed, e.output)
             kept == SelectSeq(e.activeVoices, LAMBDA v : ~VoiceMatches(v, pitch))
         IN IF isEmpty(chord)
            THEN [e EXCEPT !.currentChord = Absent,
                           !.pendingChord = Absent,
                           !.activeVoices = <<>>,
                           !.channelUsed = stopped[1],
                           !.output = stopped[2]]
            ELSE [e EXCEPT !.currentChord = Present(chord),
                           !.activeVoices = kept,
                           !.channelUsed = stopped[1],
                           !.output = stopped[2]]

\* The voice-creation loop of detectChordChange for the first chord.
RECURSIVE FirstChordVoices(_, _, _)
FirstChordVoices(notes, used, voices) ==
    IF notes = <<>> THEN <<used, voices>>
    ELSE LET a == allocate(used)
             note == Head(notes)
         IN IF HasValue(a[1])
            THEN FirstChordVoices(Tail(notes), a[2],
                     Append(voices, GlidingVoice(Value(a[1]), note.pitch, note.pitch,
                                                 note.timestamp, 0)))
            ELSE FirstChordVoices(Tail(notes), a[2], voices)

\* ChordTransitionEngine::detectChordChange
detectChordChange(e, simultaneousNotes) ==
    IF simultaneousNotes = <<>> THEN e
    ELSE LET newChord == Chord(simultaneousNotes, simultaneousNotes[1].timestamp)
         IN IF ~HasValue(e.currentChord)
            THEN LET made == FirstChordVoices(newChord.notes, e.channelUsed, e.activeVoices)
                 IN [e EXCEPT !.currentChord = Present(newChord),
                              !.channelUsed = made[1],
                              !.activeVoices = made[2]]
            ELSE [e EXCEPT !.pendingChord = Present(newChord)]

\* The release loop of startTransition.
RECURSIVE ReleaseAll(_, _)
ReleaseAll(voices, used) ==
    IF voices = <<>> THEN used
    ELSE ReleaseAll(Tail(voices), release(used, Head(voices).channel))

\* The (source, target) pairs of a mapping in the order of its nested loops.
RECURSIVE MappingPairs(_)
MappingPairs(mapping) ==
    IF mapping = <<>> THEN <<>>
    ELSE LET entry == Head(mapping)
         IN [k \in 1..Len(entry[2]) |-> <<entry[1], entry[2][k]>>] \o MappingPairs(Tail(mapping))

\* The voice-creation loop of startTransition.
RECURSIVE TransitionVoices(_, _, _, _, _)
TransitionVoices(pairs, used, voices, transitionStart, lookahead) ==
    IF pairs = <<>> THEN <<used, voices>>
    ELSE LET a == allocate(used)
             pair == Head(pairs)
         IN IF HasValue(a[1])
            THEN TransitionVoices(Tail(pairs), a[2],
                     Append(voices, GlidingVoice(Value(a[1]), pair[1], pair[2],
                                                 transitionStart, lookahead)),
                     transitionStart, lookahead)
            ELSE TransitionVoices(Tail(pairs), a[2], voices, transitionStart, lookahead)

\* A startTransition that starts the glides at the pending chord's timestamp.
startTransition_StartAtArrival(e, mapping, lookahead) ==
    IF ~HasValue(e.currentChord) \/ ~HasValue(e.pendingChord) THEN e
    ELSE LET released == ReleaseAll(e.activeVoices, e.channelUsed)
             transitionStart == Value(e.pendingChord).timestamp
             made == TransitionVoices(MappingPairs(mapping), released, <<>>,
                                      transitionStart, lookahead)
         IN [e EXCEPT !.channelUsed = made[1],
                      !.activeVoices = made[2],
                      !.currentChord = e.pendingChord,
                      !.pendingChord = Absent]

\* ChordTransitionEngine::startTransition, for the mapping the strategy
\* returned.
startTransition(e, mapping, lookahead) ==
    IF ~HasValue(e.currentChord) \/ ~HasValue(e.pendingChord) THEN e
    ELSE LET released == ReleaseAll(e.activeVoices, e.channelUsed)
             transitionStart == Value(e.pendingChord).timestamp - lookahead
             made == TransitionVoices(MappingPairs(mapping), released, <<>>,
                                      transitionStart, lookahead)
         IN [e EXCEPT !.channelUsed = made[1],
                      !.activeVoices = made[2],
                      !.currentChord = e.pendingChord,
                      !.pendingChord = Absent]

\* A condition that does not look at the voices still active.
TransitionDue_IgnoringVoices(e, globalTime, lookahead) ==
    /\ HasValue(e.currentChord)
    /\ HasValue(e.pendingChord)
    /\ globalTime >= Value(e.pendingChord).timestamp - lookahead

\* The condition under which processBufferedEvents calls startTransition.
TransitionDue(e, globalTime, lookahead) ==
    /\ HasValue(e.currentChord)
    /\ HasValue(e.pendingChord)
    /\ globalTime >= Value(e.pendingChord).timestamp - lookahead
    /\ e.activeVoices = <<>>

\* A loop body that sends a pitch bend at every sample of a glide.
GlideSample_BendEverySample(v, out, lands, blockStartTime, sample, range) ==
    LET globalTime == blockStartTime + sample
        v1 == updateGlide(v, globalTime)
        out1 == IF globalTime = v1.startPitch /\ sample = 0
                THEN sendMidiNoteOn(out, v1.channel, v1.startPitch, NOTE_ON_VELOCITY, sample)
                ELSE out
        out2 == IF v1.isGliding
                THEN sendMidiPitchBend(out1, v1.channel, v1.currentPitchBend, sample, range)
                ELSE out1
        out3 == IF hasReachedTarget(v1) /\ v1.startPitch /= v1.targetPitch
                THEN sendMidiPitchBend(
                         sendMidiNoteOn(
                             sendMidiNoteOff(out2, v1.channel, v1.startPitch, sample),
                             v1.channel, v1.targetPitch, NOTE_ON_VELOCITY, sample),
                         v1.channel, <<0, 1>>, sample, range)
                ELSE out2
        lands1 == IF v.isGliding /\ ~v1.isGliding
                  THEN lands \cup {[channel |-> v.channel,
                                    duration |-> v.glideDurationSamples,
                                    due |-> v.glideStartTime + v.glideDurationSamples,
                                    at |-> globalTime]}
                  ELSE lands
    IN <<v1, out3, lands1>>

\* One iteration of the sample loop of processVoiceGlides for one voice:
\* <<voice, output, landings>>.  landings records where a glide ended.
GlideSample(v, out, lands, blockStartTime, sample, range) ==
    LET globalTime == blockStartTime + sample
        v1 == updateGlide(v, globalTime)
        out1 == IF globalTime = v1.startPitch /\ sample = 0
                THEN sendMidiNoteOn(out, v1.channel, v1.startPitch, NOTE_ON_VELOCITY, sample)
                ELSE out
        out2 == IF v1.isGliding /\ sample % PITCH_BEND_UPDATE_INTERVAL = 0
                THEN sendMidiPitchBend(out1, v1.channel, v1.currentPitchBend, sample, range)
                ELSE out1
        out3 == IF hasReachedTarget(v1) /\ v1.startPitch /= v1.targetPitch
                THEN sendMidiPitchBend(
                         sendMidiNoteOn(
                             sendMidiNoteOff(out2, v1.channel, v1.startPitch, sample),
                             v1.channel, v1.targetPitch, NOTE_ON_VELOCITY, sample),
                         v1.channel, <<0, 1>>, sample, range)
                ELSE out2
        lands1 == IF v.isGliding /\ ~v1.isGliding
                  THEN lands \cup {[channel |-> v.channel,
                                    duration |-> v.glideDurationSamples,
                                    due |-> v.glideStartTime + v.glideDurationSamples,
                                    at |-> globalTime]}
                  ELSE lands
    IN <<v1, out3, lands1>>

\* A sample loop that runs one sample past the end of the block.
RECURSIVE GlideSamples_OnePastEnd(_, _, _, _, _, _, _)
GlideSamples_OnePastEnd(v, out, lands, blockStartTime, sample, blockSize, range) ==
    IF sample > blockSize THEN <<v, out, lands>>
    ELSE LET r == GlideSample(v, out, lands, blockStartTime, sample, range)
         IN GlideSamples_OnePastEnd(r[1], r[2], r[3], blockStartTime, sample + 1,
                                    blockSize, range)

\* The sample loop of processVoiceGlides for one voice.
RECURSIVE GlideSamples(_, _, _, _, _, _, _)
GlideSamples(v, out, lands, blockStartTime, sample, blockSize, range) ==
    IF sample >= blockSize THEN <<v, out, lands>>
    ELSE LET r == GlideSample(v, out, lands, blockStartTime, sample, range)
         IN GlideSamples(r[1], r[2], r[3], blockStartTime, sample + 1, blockSize, range)

\* ChordTransitionEngine::processVoiceGlides: <<voices, output, landings>>
RECURSIVE processVoiceGlides(_, _, _, _, _, _, _)
processVoiceGlides(voices, done, out, lands, blockStartTime, blockSize, range) ==
    IF voices = <<>> THEN <<done, out, lands>>
    ELSE LET r == GlideSamples(Head(voices), out, lands, blockStartTime, 0, blockSize, range)
         IN processVoiceGlides(Tail(voices), Append(done, r[1]), r[2], r[3],
                               blockStartTime, blockSize, range)

(***************************************************************************)
(* The state of the engine, and of the harness that applies the mapping    *)
(* strategies to pitch lists on their own.                                 *)
(***************************************************************************)
VARIABLES
    channelUsed,        \* MPEVoiceAllocator::channelUsed_
    activeVoices,       \* ChordTransitionEngine::activeVoices_
    midiBuffer,         \* ChordTransitionEngine::midiBuffer_
    currentChord,       \* ChordTransitionEngine::currentChord_
    pendingChord,       \* ChordTransitionEngine::pendingChord_
    sampleRate,         \* ChordTransitionEngine::sampleRate_
    lookaheadSamples,   \* ChordTransitionEngine::lookaheadSamples_
    currentGlobalTime,  \* ChordTransitionEngine::currentGlobalTime_
    pitchBendRange,     \* ChordTransitionEngine::pitchBendRange_
    prepared,           \* prepare() has been called
    midiMessages,       \* the caller's buffer after the last processBlock
    blk,                \* what the last operation did
    mapSource,          \* harness: source pitches given to map
    mapTarget,          \* harness: target pitches given to map
    mapStrategy,        \* harness: strategy applied, "" before
    mapResult,          \* harness: the mapping returned
    glideTimeMs,        \* processor: parameter "glideTime" in apvts_
    latencySamples,     \* processor: juce::AudioProcessor::getLatencySamples()
    midiInput           \* harness: the input of the last block, where it is kept

engineVars == <<channelUsed, activeVoices, midiBuffer, currentChord, pendingChord,
                sampleRate, lookaheadSamples, currentGlobalTime, pitchBendRange,
                prepared, midiMessages, blk>>
mapVars == <<mapSource, mapTarget, mapStrategy, mapResult>>
procVars == <<glideTimeMs, latencySamples, midiInput>>
vars == <<channelUsed, activeVoices, midiBuffer, currentChord, pendingChord,
          sampleRate, lookaheadSamples, currentGlobalTime, pitchBendRange,
          prepared, midiMessages, blk, mapSource, mapTarget, mapStrategy, mapResult,
          glideTimeMs, latencySamples, midiInput>>

\* The record of an operation that is not a processBlock.
OpRecord(op) ==
    [op |-> op, numSamples |-> 0, blockStart |-> 0, fresh |-> FALSE,
     noteOffs |-> <<>>, first |-> Absent, transition |-> Absent, landings |-> {}]

\* ChordTransitionEngine::ChordTransitionEngine and the member initialisers.
EngineInit ==
    /\ channelUsed = AllChannelsFree
    /\ activeVoices = <<>>
    /\ midiBuffer = <<>>
    /\ currentChord = Absent
    /\ pendingChord = Absent
    /\ sampleRate = DEFAULT_SAMPLE_RATE
    /\ lookaheadSamples = 0
    /\ currentGlobalTime = 0
    /\ pitchBendRange = DEFAULT_PITCH_BEND_RANGE
    /\ prepared = FALSE
    /\ midiMessages = <<>>
    /\ blk = OpRecord("init")

MapIdle ==
    /\ mapSource = <<>>
    /\ mapTarget = <<>>
    /\ mapStrategy = ""
    /\ mapResult = <<>>

\* BetterChordStacksAudioProcessor::BetterChordStacksAudioProcessor: the
\* parameter at its default, no latency set.
ProcIdle ==
    /\ glideTimeMs = GLIDE_TIME_DEFAULT
    /\ latencySamples = 0
    /\ midiInput = <<>>

Init == EngineInit /\ MapIdle /\ ProcIdle

\* A reset that leaves the allocator alone.
ResetFields_NoAllocatorReset ==
    /\ channelUsed' = channelUsed
    /\ activeVoices' = <<>>
    /\ midiBuffer' = <<>>
    /\ currentChord' = Absent
    /\ pendingChord' = Absent
    /\ currentGlobalTime' = 0

\* ChordTransitionEngine::reset
ResetFields ==
    /\ channelUsed' = AllChannelsFree
    /\ activeVoices' = <<>>
    /\ midiBuffer' = <<>>
    /\ currentChord' = Absent
    /\ pendingChord' = Absent
    /\ currentGlobalTime' = 0

reset ==
    /\ ResetFields
    /\ blk' = OpRecord("reset")
    /\ UNCHANGED <<sampleRate, lookaheadSamples, pitchBendRange, prepared, midiMessages>>
    /\ UNCHANGED mapVars

\* ChordTransitionEngine::prepare
prepare(rate, lookahead) ==
    /\ sampleRate' = rate
    /\ lookaheadSamples' = lookahead
    /\ ResetFields
    /\ prepared' = TRUE
    /\ blk' = OpRecord("prepare")
    /\ UNCHANGED <<pitchBendRange, midiMessages>>
    /\ UNCHANGED mapVars

(***************************************************************************)
(* The input of a block: a few items, each a group of note-ons             *)
(* or one note-off at a sample position of the block, in buffer order.     *)
(***************************************************************************)
Items(numSamples) ==
    [isNoteOn : {TRUE}, pos : 0..(numSamples - 1), pitches : Groups]
    \cup [isNoteOn : {FALSE}, pos : 0..(numSamples - 1), pitches : [1..1 -> Pitches]]

\* Sequences of items in buffer order (by position; a note-off behind the
\* note-ons of its position), with at most MaxOnItems groups and
\* MaxOffItems note-offs.
ItemSeqs(numSamples) ==
    {<<>>} \cup
    {s \in SeqsUpTo(Items(numSamples), MaxOnItems + MaxOffItems) :
        /\ \A i \in 1..(Len(s) - 1) :
              \/ s[i].pos < s[i + 1].pos
              \/ s[i].pos = s[i + 1].pos /\ (s[i].isNoteOn \/ ~s[i + 1].isNoteOn)
        /\ Cardinality({i \in 1..Len(s) : s[i].isNoteOn}) <= MaxOnItems
        /\ Cardinality({i \in 1..Len(s) : ~s[i].isNoteOn}) <= MaxOffItems}

ItemEvents(item) ==
    [k \in 1..Len(item.pitches) |->
        [isNoteOn |-> item.isNoteOn, noteNumber |-> item.pitches[k],
         velocity |-> IF item.isNoteOn THEN NOTE_ON_VELOCITY ELSE 0,
         samplePosition |-> item.pos]]

RECURSIVE InputEvents(_)
InputEvents(items) ==
    IF items = <<>> THEN <<>> ELSE ItemEvents(Head(items)) \o InputEvents(Tail(items))

(***************************************************************************)
(* ChordTransitionEngine::processBlock.                                    *)
(***************************************************************************)
\* ChordTransitionEngine::bufferIncomingMidi
bufferIncomingMidi(buffer, input, blockStartTime) ==
    buffer \o [k \in 1..Len(input) |->
                  [isNoteOn |-> input[k].isNoteOn,
                   noteNumber |-> input[k].noteNumber,
                   velocity |-> input[k].velocity,
                   globalTimestamp |-> blockStartTime + input[k].samplePosition]]

\* Keys of noteOnsByTime.
NoteOnTimes(buffer, lookaheadEndTime) ==
    {buffer[k].globalTimestamp : k \in {i \in 1..Len(buffer) :
        buffer[i].isNoteOn /\ buffer[i].globalTimestamp < lookaheadEndTime}}

\* noteOnsByTime[t]
NotesAt(buffer, t) ==
    LET ons == SelectSeq(buffer, LAMBDA ev : ev.isNoteOn /\ ev.globalTimestamp = t)
    IN [k \in 1..Len(ons) |-> Note(ons[k].noteNumber, ons[k].velocity, ons[k].globalTimestamp)]

\* noteOffs
NoteOffsIn(buffer, blockStartTime, blockEndTime) ==
    SelectSeq(buffer, LAMBDA ev : /\ ~ev.isNoteOn
                                  /\ ev.globalTimestamp >= blockStartTime
                                  /\ ev.globalTimestamp < blockEndTime)

\* The note-off loop of processBufferedEvents.
RECURSIVE ProcessNoteOffs(_, _, _, _)
ProcessNoteOffs(e, noteOffs, blockStartTime, blockSize) ==
    IF noteOffs = <<>> THEN e
    ELSE LET localSample == jlimit(0, blockSize - 1,
                                   ToInt32(Head(noteOffs).globalTimestamp - blockStartTime))
         IN ProcessNoteOffs(handleNoteOff(e, Head(noteOffs).noteNumber, localSample),
                            Tail(noteOffs), blockStartTime, blockSize)

MinOf(S) == CHOOSE x \in S : \A y \in S : x <= y

\* A detection loop that takes a single note-on for a chord.
RECURSIVE DetectChords_SingleNotes(_, _, _)
DetectChords_SingleNotes(e, buffer, times) ==
    IF times = {} THEN e
    ELSE LET t == MinOf(times)
             notes == NotesAt(buffer, t)
         IN DetectChords_SingleNotes(IF Len(notes) >= 1 THEN detectChordChange(e, notes) ELSE e,
                                     buffer, times \ {t})

\* The chord-detection loop of processBufferedEvents, in key order.
RECURSIVE DetectChords(_, _, _)
DetectChords(e, buffer, times) ==
    IF times = {} THEN e
    ELSE LET t == MinOf(times)
             notes == NotesAt(buffer, t)
         IN DetectChords(IF Len(notes) >= 2 THEN detectChordChange(e, notes) ELSE e,
                         buffer, times \ {t})

\* A block end that erases nothing.
PruneBuffer_KeepAll(buffer, blockEndTime) == buffer

\* The erase at the end of processBufferedEvents.
PruneBuffer(buffer, blockEndTime) ==
    SelectSeq(buffer, LAMBDA ev : ~(ev.globalTimestamp < blockEndTime))

\* Strategies a block may be run with (the random one only while its set
\* of outcomes stays small).
StrategiesFor(e) ==
    IF Len(Value(e.pendingChord).notes) <= MaxRandomLen THEN Strategies ELSE {"nearest"}

\* The record blk of a processBlock.
BlockRecord(numSamples, blockStartTime, noteOffs, first, transition, landings) ==
    [op |-> "processBlock",
     numSamples |-> numSamples,
     blockStart |-> blockStartTime,
     fresh |-> /\ currentGlobalTime = 0
               /\ channelUsed = AllChannelsFree
               /\ activeVoices = <<>>
               /\ midiBuffer = <<>>
               /\ ~HasValue(currentChord)
               /\ ~HasValue(pendingChord),
     noteOffs |-> [k \in 1..Len(noteOffs) |-> noteOffs[k].noteNumber],
     first |-> first,
     transition |-> transition,
     landings |-> landings]

\* The first chord a block detected: its note-ons as they arrived, their
\* offset in the block and the voices created for them.
FirstRecord(e1, e2, buffer, times, blockStartTime) ==
    LET chordTimes == {t \in times : Len(NotesAt(buffer, t)) >= 2}
    IN IF ~HasValue(e1.currentChord) /\ chordTimes /= {}
       THEN Present([notes |-> NotesAt(buffer, MinOf(chordTimes)),
                     offset |-> MinOf(chordTimes) - blockStartTime,
                     voices |-> e2.activeVoices])
       ELSE Absent

\* The call of startTransition: the state it was called in, the strategy,
\* the mapping it returned and the voices created.
TransitionRecord(e2, e3, strategy, mapping) ==
    Present([currentChord |-> e2.currentChord,
             pendingChord |-> e2.pendingChord,
             activeVoices |-> e2.activeVoices,
             currentGlobalTime |-> currentGlobalTime,
             lookaheadSamples |-> lookaheadSamples,
             strategy |-> strategy,
             mapping |-> mapping,
             voices |-> e3.activeVoices])

\* The tail of processBufferedEvents and of processBlock: the glides, the
\* erase, the swap of the buffers and the advance of the clock.
FinishBlock(e3, buffer, numSamples, blockStartTime, range, noteOffs, first, transition) ==
    \E g \in {processVoiceGlides(e3.activeVoices, <<>>, e3.output, {},
                                 blockStartTime, numSamples, range)} :
        /\ pitchBendRange' = range
        /\ channelUsed' = e3.channelUsed
        /\ activeVoices' = g[1]
        /\ currentChord' = e3.currentChord
        /\ pendingChord' = e3.pendingChord
        /\ midiBuffer' = PruneBuffer(buffer, blockStartTime + numSamples)
        /\ midiMessages' = g[2]
        /\ currentGlobalTime' = currentGlobalTime + numSamples
        /\ blk' = BlockRecord(numSamples, blockStartTime, noteOffs, first, transition, g[3])

\* ChordTransitionEngine::processBlock behind the conversion of the clock:
\* bufferIncomingMidi, processBufferedEvents, the swap of the buffers and
\* the advance of the clock, for one input and the block start time the
\* conversion gave.  The strategy is an input of the block; it matters only
\* to a block that starts a transition.
processBlockAt(blockStartTime, items, numSamples, range) ==
    /\ \E buffer \in {bufferIncomingMidi(midiBuffer, InputEvents(items), blockStartTime)} :
       \E noteOffs \in {NoteOffsIn(buffer, blockStartTime, blockStartTime + numSamples)} :
       \E times \in {NoteOnTimes(buffer, blockStartTime + numSamples + lookaheadSamples)} :
       \E e1 \in {ProcessNoteOffs([channelUsed |-> channelUsed, activeVoices |-> activeVoices,
                                   currentChord |-> currentChord, pendingChord |-> pendingChord,
                                   output |-> <<>>],
                                  noteOffs, blockStartTime, numSamples)} :
       \E e2 \in {DetectChords(e1, buffer, times)} :
       \E first \in {FirstRecord(e1, e2, buffer, times, blockStartTime)} :
          IF TransitionDue(e2, currentGlobalTime, lookaheadSamples)
          THEN \E strategy \in StrategiesFor(e2) :
               \E mapping \in MapOutcomes(strategy, getPitches(Value(e2.currentChord)),
                                          getPitches(Value(e2.pendingChord))) :
               \E e3 \in {startTransition(e2, mapping, lookaheadSamples)} :
                  FinishBlock(e3, buffer, numSamples, blockStartTime, range, noteOffs, first,
                              TransitionRecord(e2, e3, strategy, mapping))
          ELSE FinishBlock(e2, buffer, numSamples, blockStartTime, range, noteOffs, first, Absent)
    /\ UNCHANGED <<sampleRate, lookaheadSamples, prepared>>
    /\ UNCHANGED mapVars

\* ChordTransitionEngine::processBlock for one input: blockStartTime is
\* static_cast<int>(currentGlobalTime_).
processBlock(items, numSamples, range) ==
    \E blockStartTime \in {ToInt32(currentGlobalTime)} :
        processBlockAt(blockStartTime, items, numSamples, range)

ProcessBlock ==
    /\ prepared
    /\ \E numSamples \in BlockSizes :
         /\ currentGlobalTime + numSamples <= MaxTime
         /\ \E items \in ItemSeqs(numSamples), range \in PitchBendRanges :
              processBlock(items, numSamples, range)
    /\ UNCHANGED procVars

Prepare ==
    /\ \E rate \in SampleRates, lookahead \in Lookaheads : prepare(rate, lookahead)
    /\ UNCHANGED procVars

Reset == reset /\ UNCHANGED procVars

Next == Prepare \/ Reset \/ ProcessBlock

Spec == Init /\ [][Next]_vars

(***************************************************************************)
(* The first block of a prepared engine, fed one group of simultaneous     *)
(* note-ons of distinct pitches.                                           *)
(***************************************************************************)
FirstChordBlock ==
    /\ prepared
    /\ blk.op = "prepare"
    /\ \E numSamples \in 1..MaxBlock, pos \in 0..(MaxBlock - 1), g \in ChordGroups,
          range \in PitchBendRanges :
         /\ pos < numSamples
         /\ processBlock(<<[isNoteOn |-> TRUE, pos |-> pos, pitches |-> g]>>, numSamples, range)
    /\ UNCHANGED procVars

ChordNext == Prepare \/ FirstChordBlock

ChordSpec == Init /\ [][ChordNext]_vars

(***************************************************************************)
(* The engine with the first step of a block made visible: a note-off of   *)
(* the block handed to handleNoteOff in the state the block starts in.     *)
(* Nothing follows the step.                                               *)
(***************************************************************************)
EngineRecord ==
    [channelUsed |-> channelUsed, activeVoices |-> activeVoices,
     currentChord |-> currentChord, pendingChord |-> pendingChord, output |-> <<>>]

HandleNoteOff ==
    /\ prepared
    /\ blk.op /= "handleNoteOff"
    /\ \E pitch \in Pitches, localSample \in 0..(MaxBlock - 1) :
       \E r \in {handleNoteOff(EngineRecord, pitch, localSample)} :
         /\ channelUsed' = r.channelUsed
         /\ activeVoices' = r.activeVoices
         /\ currentChord' = r.currentChord
         /\ pendingChord' = r.pendingChord
         /\ midiMessages' = r.output
         /\ blk' = [op |-> "handleNoteOff", pitch |-> pitch, localSample |-> localSample,
                    before |-> EngineRecord]
    /\ UNCHANGED <<midiBuffer, sampleRate, lookaheadSamples, currentGlobalTime,
                   pitchBendRange, prepared>>
    /\ UNCHANGED mapVars
    /\ UNCHANGED procVars

NoteOffNext == (blk.op /= "handleNoteOff" /\ Next) \/ HandleNoteOff

NoteOffSpec == Init /\ [][NoteOffNext]_vars

(***************************************************************************)
(* The engine run with blocks longer than the pitch-bend interval, on a    *)
(* sparse input: block sizes that are not multiples of the interval, events*)
(* at the first sample, at the interval and at the last sample.            *)
(***************************************************************************)
LongBlockSizes == {MaxLongBlock - 1, MaxLongBlock}
LongLookaheads == {0, MaxLongBlock}
LongPositions(numSamples) ==
    {0, PITCH_BEND_UPDATE_INTERVAL, numSamples - 1} \cap (0..(numSamples - 1))
LongGroups == {<<1, 2>>} \cup BigGroups
LongTime == 2 * MaxLongBlock

LongItems(numSamples) ==
    [isNoteOn : {TRUE}, pos : LongPositions(numSamples), pitches : LongGroups]
    \cup [isNoteOn : {FALSE}, pos : LongPositions(numSamples), pitches : [1..1 -> Pitches]]

LongItemSeqs(numSamples) ==
    {<<>>} \cup
    {s \in SeqsUpTo(LongItems(numSamples), MaxOnItems + MaxOffItems) :
        /\ \A i \in 1..(Len(s) - 1) :
              \/ s[i].pos < s[i + 1].pos
              \/ s[i].pos = s[i + 1].pos /\ (s[i].isNoteOn \/ ~s[i + 1].isNoteOn)
        /\ Cardinality({i \in 1..Len(s) : s[i].isNoteOn}) <= MaxOnItems
        /\ Cardinality({i \in 1..Len(s) : ~s[i].isNoteOn}) <= MaxOffItems}

LongPrepare ==
    /\ \E rate \in SampleRates, lookahead \in LongLookaheads : prepare(rate, lookahead)
    /\ UNCHANGED procVars

LongProcessBlock ==
    /\ prepared
    /\ \E numSamples \in LongBlockSizes :
         /\ currentGlobalTime + numSamples <= LongTime
         /\ \E items \in LongItemSeqs(numSamples), range \in PitchBendRanges :
              processBlock(items, numSamples, range)
    /\ UNCHANGED procVars

LongNext == LongPrepare \/ LongProcessBlock

LongSpec == Init /\ [][LongNext]_vars

(***************************************************************************)
(* One GlidingVoice on its own: constructed, then updateGlide called with  *)
(* the sample clock from the start of the glide to its end.  The voice is  *)
(* held in activeVoices, the clock in currentGlobalTime.                   *)
(***************************************************************************)
GlidePitches == {60, 62, 65}
GlideStarts == 0..MaxGlideStart
GlideDurations == 1..MaxGlideDuration

GlideInit ==
    /\ channelUsed = [AllChannelsFree EXCEPT ![0] = TRUE]
    /\ \E startPitch \in GlidePitches, targetPitch \in GlidePitches,
          startTime \in GlideStarts, duration \in GlideDurations :
         /\ activeVoices = <<GlidingVoice(FIRST_VOICE_CHANNEL, startPitch, targetPitch,
                                           startTime, duration)>>
         /\ currentGlobalTime = startTime
    /\ midiBuffer = <<>>
    /\ currentChord = Absent
    /\ pendingChord = Absent
    /\ sampleRate = DEFAULT_SAMPLE_RATE
    /\ lookaheadSamples = 0
    /\ pitchBendRange = DEFAULT_PITCH_BEND_RANGE
    /\ prepared = FALSE
    /\ midiMessages = <<>>
    /\ blk = OpRecord("init")
    /\ MapIdle
    /\ ProcIdle

\* A call of GlidingVoice::updateGlide with the next sample time.
UpdateGlide ==
    /\ currentGlobalTime <= activeVoices[1].glideStartTime + activeVoices[1].glideDurationSamples
    /\ activeVoices' = <<updateGlide(activeVoices[1], currentGlobalTime)>>
    /\ currentGlobalTime' = currentGlobalTime + 1
    /\ blk' = [op |-> "updateGlide", before |-> activeVoices[1], time |-> currentGlobalTime]
    /\ UNCHANGED <<channelUsed, midiBuffer, currentChord, pendingChord, sampleRate,
                   lookaheadSamples, pitchBendRange, prepared, midiMessages>>
    /\ UNCHANGED mapVars
    /\ UNCHANGED procVars

GlideNext == UpdateGlide

GlideSpec == GlideInit /\ [][GlideNext]_vars

(***************************************************************************)
(* A block of single events run in any state the engine reaches: note-ons  *)
(* at sample positions of their own and at most one note-off.  The input   *)
(* is kept in midiInput.  Nothing follows the step.                        *)
(***************************************************************************)
SingleItems(numSamples) ==
    [isNoteOn : {TRUE, FALSE}, pos : 0..(numSamples - 1), pitches : [1..1 -> Pitches]]

SingleItemSeqs(numSamples) ==
    {s \in SeqsUpTo(SingleItems(numSamples), MaxSingleOns + MaxOffItems) :
        /\ \A i \in 1..(Len(s) - 1) :
              \/ s[i].pos < s[i + 1].pos
              \/ s[i].pos = s[i + 1].pos /\ (s[i].isNoteOn \/ ~s[i + 1].isNoteOn)
        /\ \A i, j \in 1..Len(s) :
              (i /= j /\ s[i].isNoteOn /\ s[j].isNoteOn) => s[i].pos /= s[j].pos
        /\ Cardinality({i \in 1..Len(s) : s[i].isNoteOn}) <= MaxSingleOns
        /\ Cardinality({i \in 1..Len(s) : ~s[i].isNoteOn}) <= MaxOffItems}

SingleNotesBlock ==
    /\ prepared
    /\ midiInput = <<>>
    /\ \E numSamples \in 1..MaxBlock :
         /\ currentGlobalTime + numSamples <= MaxTime
         /\ \E items \in SingleItemSeqs(numSamples), range \in PitchBendRanges :
              /\ processBlock(items, numSamples, range)
              /\ midiInput' = InputEvents(items)
    /\ UNCHANGED <<glideTimeMs, latencySamples>>

SingleNext == (midiInput = <<>> /\ Next) \/ SingleNotesBlock

SingleSpec == Init /\ [][SingleNext]_vars

(***************************************************************************)
(* The first block of a prepared engine, fed a group of simultaneous       *)
(* note-ons and, at a later sample of the block, a note-off for one of the *)
(* group's pitches.  The input is kept in midiInput.                       *)
(***************************************************************************)
OrderedBlock ==
    /\ prepared
    /\ blk.op = "prepare"
    /\ midiInput = <<>>
    /\ \E numSamples \in 2..MaxOrderBlock, g \in ChordGroups :
       \E a \in 0..(numSamples - 2), k \in 1..Len(g) :
       \E b \in (a + 1)..(numSamples - 1), range \in PitchBendRanges :
       \E items \in {<<[isNoteOn |-> TRUE, pos |-> a, pitches |-> g],
                        [isNoteOn |-> FALSE, pos |-> b, pitches |-> <<g[k]>>]>>} :
         /\ processBlock(items, numSamples, range)
         /\ midiInput' = InputEvents(items)
    /\ UNCHANGED <<glideTimeMs, latencySamples>>

OrderNext == Prepare \/ OrderedBlock

OrderSpec == Init /\ [][OrderNext]_vars

(***************************************************************************)
(* sendMidiPitchBend on its own: one voice part-way through a glide whose  *)
(* duration is a power of two (the float operations of updateGlide are     *)
(* then exact), its bend sent once under a pitch-bend range.               *)
(***************************************************************************)
BendPitches == {48, 60, 61, 72, 90}
BendDurations == {Pow2(k) : k \in 0..MaxBendExponent}
BendRanges == {PITCH_BEND_RANGE_MIN, 2, DEFAULT_PITCH_BEND_RANGE, PITCH_BEND_RANGE_MAX}

BendInit ==
    /\ channelUsed = [AllChannelsFree EXCEPT ![0] = TRUE]
    /\ \E startPitch \in BendPitches, targetPitch \in BendPitches,
          duration \in BendDurations, range \in BendRanges :
       \E elapsed \in 0..(duration - 1) :
         /\ activeVoices = <<updateGlide(GlidingVoice(FIRST_VOICE_CHANNEL, startPitch,
                                                      targetPitch, 0, duration), elapsed)>>
         /\ currentGlobalTime = elapsed
         /\ pitchBendRange = range
    /\ midiBuffer = <<>>
    /\ currentChord = Absent
    /\ pendingChord = Absent
    /\ sampleRate = DEFAULT_SAMPLE_RATE
    /\ lookaheadSamples = 0
    /\ prepared = FALSE
    /\ midiMessages = <<>>
    /\ blk = OpRecord("init")
    /\ MapIdle
    /\ ProcIdle

\* ChordTransitionEngine::sendMidiPitchBend
SendMidiPitchBend ==
    /\ blk.op = "init"
    /\ \E sample \in 0..1 :
         /\ midiMessages' = sendMidiPitchBend(<<>>, activeVoices[1].channel,
                                              activeVoices[1].currentPitchBend, sample,
                                              pitchBendRange)
         /\ blk' = [op |-> "sendMidiPitchBend", semitones |-> activeVoices[1].currentPitchBend,
                    range |-> pitchBendRange, sample |-> sample]
    /\ UNCHANGED <<channelUsed, activeVoices, midiBuffer, currentChord, pendingChord,
                   sampleRate, lookaheadSamples, currentGlobalTime, pitchBendRange, prepared>>
    /\ UNCHANGED mapVars
    /\ UNCHANGED procVars

BendNext == SendMidiPitchBend

BendSpec == BendInit /\ [][BendNext]_vars

(***************************************************************************)
(* prepare and reset called in any state the engine reaches, with the      *)
(* state they were called in kept in blk.  Nothing follows the step.       *)
(***************************************************************************)
LifecycleOps == {"resetFrom", "prepareFrom"}
LifecycleRates == SampleRates \cup {DEFAULT_SAMPLE_RATE}

LifecycleRecord ==
    [channelUsed |-> channelUsed, activeVoices |-> activeVoices,
     midiBuffer |-> midiBuffer, currentChord |-> currentChord,
     pendingChord |-> pendingChord, currentGlobalTime |-> currentGlobalTime,
     sampleRate |-> sampleRate, lookaheadSamples |-> lookaheadSamples]

\* ChordTransitionEngine::reset
ResetFrom ==
    /\ blk.op \notin LifecycleOps
    /\ ResetFields
    /\ blk' = [op |-> "resetFrom", before |-> LifecycleRecord,
               rate |-> sampleRate, lookahead |-> lookaheadSamples]
    /\ UNCHANGED <<sampleRate, lookaheadSamples, pitchBendRange, prepared, midiMessages>>
    /\ UNCHANGED mapVars
    /\ UNCHANGED procVars

\* ChordTransitionEngine::prepare
PrepareFrom ==
    /\ blk.op \notin LifecycleOps
    /\ \E rate \in LifecycleRates, lookahead \in Lookaheads :
         /\ sampleRate' = rate
         /\ lookaheadSamples' = lookahead
         /\ ResetFields
         /\ prepared' = TRUE
         /\ blk' = [op |-> "prepareFrom", before |-> LifecycleRecord,
                    rate |-> rate, lookahead |-> lookahead]
    /\ UNCHANGED <<pitchBendRange, midiMessages>>
    /\ UNCHANGED mapVars
    /\ UNCHANGED procVars

LifecycleNext == (blk.op \notin LifecycleOps /\ Next) \/ ResetFrom \/ PrepareFrom

LifecycleSpec == Init /\ [][LifecycleNext]_vars

(***************************************************************************)
(* BetterChordStacksAudioProcessor around the engine: the host prepares    *)
(* it, changes the glide time parameter and runs blocks of one sample.     *)
(* getSampleRate() is the rate of the last prepareToPlay, which the engine *)
(* keeps in sampleRate.                                                    *)
(***************************************************************************)
ProcSampleRates == {8000}
ProcGlideTimes == {GLIDE_TIME_MIN, GLIDE_TIME_MIN + 1, GLIDE_TIME_DEFAULT}
ProcBlock == 1

\* glideTimeMs / 1000.0f in binary32, as <<m, k>> for the value m / 2^k:
\* k puts the quotient into [2^23, 2^24), m is the quotient times 2^k
\* rounded to the nearest integer (1000 = 8 * 125; the numbers stay below
\* 2^31).
Float32Div1000(g) ==
    LET k == CHOOSE x \in 3..30 :
                 /\ g >= ((Pow2(23) * 125) + Pow2(x - 3) - 1) \div Pow2(x - 3)
                 /\ g <= ((Pow2(24) * 125) - 1) \div Pow2(x - 3)
    IN <<((g * Pow2(k - 3)) + 62) \div 125, k>>

\* static_cast<int>((glideTimeMs / 1000.0f) * sampleRate) for a rate that
\* is a multiple of 64: the product in double is exact, the cast truncates.
LookaheadFor(g, rate) ==
    LET f == Float32Div1000(g)
    IN (f[1] * (rate \div 64)) \div Pow2(f[2] - 6)

\* BetterChordStacksAudioProcessor::prepareToPlay
PrepareToPlay ==
    /\ \E newSampleRate \in ProcSampleRates :
       \E lookahead \in {LookaheadFor(glideTimeMs, newSampleRate)} :
         /\ prepare(newSampleRate, lookahead)
         /\ latencySamples' = lookahead
    /\ UNCHANGED <<glideTimeMs, midiInput>>

\* BetterChordStacksAudioProcessor::releaseResources
ReleaseResources == reset /\ UNCHANGED procVars

\* The host or the editor moves the glide time parameter.
SetGlideTime ==
    /\ \E g \in ProcGlideTimes : g /= glideTimeMs /\ glideTimeMs' = g
    /\ UNCHANGED <<latencySamples, midiInput>>
    /\ UNCHANGED engineVars
    /\ UNCHANGED mapVars

\* BetterChordStacksAudioProcessor::processBlock
ProcessorProcessBlock ==
    /\ prepared
    /\ \E newLookahead \in {LookaheadFor(glideTimeMs, sampleRate)} :
         latencySamples' = IF newLookahead /= latencySamples THEN newLookahead
                           ELSE latencySamples
    /\ \E numSamples \in {ProcBlock} :
         /\ currentGlobalTime + numSamples <= MaxProcTime
         /\ \E items \in ItemSeqs(numSamples), range \in PitchBendRanges :
              processBlock(items, numSamples, range)
    /\ UNCHANGED <<glideTimeMs, midiInput>>

ProcNext == PrepareToPlay \/ ReleaseResources \/ SetGlideTime \/ ProcessorProcessBlock

ProcSpec == Init /\ [][ProcNext]_vars

(***************************************************************************)
(* MPEVoiceAllocator on its own: allocate and release called in any order  *)
(* on a freshly constructed pool.                                          *)
(***************************************************************************)
\* Channels release is called with: one below the range, the first
\* MaxReleaseIndex + 1 of the range, the last of the range, one above it.
ReleaseChannels ==
    {0, FIRST_VOICE_CHANNEL - 1} \cup
    FIRST_VOICE_CHANNEL..(FIRST_VOICE_CHANNEL + MaxReleaseIndex) \cup
    {LAST_VOICE_CHANNEL, LAST_VOICE_CHANNEL + 1}

AllocInit == EngineInit /\ MapIdle /\ ProcIdle

AllocAllocate ==
    /\ \E r \in {allocate(channelUsed)} :
         /\ channelUsed' = r[2]
         /\ blk' = [op |-> "allocate", before |-> channelUsed, channel |-> 0,
                    result |-> r[1], repeated |-> FALSE]
    /\ UNCHANGED <<activeVoices, midiBuffer, currentChord, pendingChord, sampleRate,
                   lookaheadSamples, currentGlobalTime, pitchBendRange, prepared,
                   midiMessages>>
    /\ UNCHANGED mapVars
    /\ UNCHANGED procVars

AllocRelease ==
    /\ \E channel \in ReleaseChannels :
         /\ channelUsed' = release(channelUsed, channel)
         /\ blk' = [op |-> "release", before |-> channelUsed, channel |-> channel,
                    result |-> Absent,
                    repeated |-> (blk.op = "release" /\ blk.channel = channel)]
    /\ UNCHANGED <<activeVoices, midiBuffer, currentChord, pendingChord, sampleRate,
                   lookaheadSamples, currentGlobalTime, pitchBendRange, prepared,
                   midiMessages>>
    /\ UNCHANGED mapVars
    /\ UNCHANGED procVars

AllocNext == AllocAllocate \/ AllocRelease

AllocSpec == AllocInit /\ [][AllocNext]_vars

(***************************************************************************)
(* The mapping strategies applied to pitch lists on their own.             *)
(***************************************************************************)
MapInit ==
    /\ EngineInit
    /\ \E in \in MapInputs : mapSource = in[1] /\ mapTarget = in[2]
    /\ mapStrategy = ""
    /\ mapResult = <<>>
    /\ ProcIdle

MapNearest ==
    /\ mapStrategy = ""
    /\ mapStrategy' = "nearest"
    /\ mapResult' = NearestNoteMap(mapSource, mapTarget)
    /\ UNCHANGED <<mapSource, mapTarget>>
    /\ UNCHANGED engineVars
    /\ UNCHANGED procVars

MapRandom ==
    /\ mapStrategy = ""
    /\ mapStrategy' = "random"
    /\ mapResult' \in RandomMap(mapSource, mapTarget)
    /\ UNCHANGED <<mapSource, mapTarget>>
    /\ UNCHANGED engineVars
    /\ UNCHANGED procVars

MapNext == MapNearest \/ MapRandom

MapSpec == MapInit /\ [][MapNext]_vars

(***************************************************************************)
(* Properties of the engine (specification Spec).                          *)
(***************************************************************************)
\* C1: after every processBlock, prepare or reset the number of channels
\* marked used equals the number of voices in activeVoices, and is at most
\* 15.
C1_ChannelConservation ==
    /\ UsedCount(channelUsed) = Len(activeVoices)
    /\ UsedCount(channelUsed) <= 15

AllLanded(voices) == \A i \in 1..Len(voices) : hasReachedTarget(voices[i])

\* A chord is held and a later chord is queued behind it.
HeldAndQueued ==
    /\ HasValue(currentChord)
    /\ HasValue(pendingChord)
    /\ activeVoices /= <<>>
    /\ AllLanded(activeVoices)

\* C2: with a chord held (voices landed) and a further chord queued, a
\* processBlock of at least one sample that brings no note-off starts the
\* transition: currentChord becomes the queued chord, pendingChord is
\* cleared and gliding voices toward the new pitches are created - unless
\* the block queued a newer chord in its place.
C2_TransitionStarts ==
    [][(/\ HeldAndQueued
        /\ blk'.op = "processBlock"
        /\ blk'.numSamples >= 1
        /\ blk'.noteOffs = <<>>
        /\ currentGlobalTime' > currentGlobalTime)
       => \/ /\ HasValue(blk'.transition)
             /\ currentChord' = Value(blk'.transition).pendingChord
             /\ pendingChord' = Absent
             /\ Value(blk'.transition).voices /= <<>>
          \/ /\ HasValue(pendingChord')
             /\ pendingChord' /= pendingChord]_vars

NoteOnsFor(v, offset) ==
    {k \in 1..Len(midiMessages) :
        /\ midiMessages[k].type = "noteOn"
        /\ midiMessages[k].channel = v.channel
        /\ midiMessages[k].data1 = v.startPitch
        /\ midiMessages[k].samplePosition = offset}

\* C3: the block that detects the first chord emits one note-on per
\* created voice, on the voice's channel and pitch, at the block-local
\* offset of the chord's arrival.
C3_FirstChordNoteOns ==
    HasValue(blk.first) =>
        \A i \in 1..Len(Value(blk.first).voices) :
            Cardinality(NoteOnsFor(Value(blk.first).voices[i], Value(blk.first).offset)) = 1

DistinctPitches(notes) ==
    \A i, j \in 1..Len(notes) : i /= j => notes[i].pitch /= notes[j].pitch

\* A block run on a freshly prepared engine that brought a group of n
\* note-ons of distinct pitches, 2 <= n <= 15.
FreshFirstChord ==
    /\ blk.op = "processBlock"
    /\ blk.fresh
    /\ HasValue(blk.first)
    /\ DistinctPitches(Value(blk.first).notes)
    /\ Len(Value(blk.first).notes) >= 2
    /\ Len(Value(blk.first).notes) <= 15

\* C4: from a freshly prepared engine, a group of n simultaneous note-ons
\* of distinct pitches (2 <= n <= 15) leaves exactly n voices, each with
\* startPitch = targetPitch = a pitch of the group and glide duration 0,
\* on channels 2..n+1 in ascending pitch order.
C4_FirstChordVoices ==
    FreshFirstChord =>
        LET notes == Value(blk.first).notes
        IN /\ Len(activeVoices) = Len(notes)
           /\ {activeVoices[i].startPitch : i \in 1..Len(activeVoices)}
                 = {notes[i].pitch : i \in 1..Len(notes)}
           /\ \A i \in 1..Len(activeVoices) :
                 /\ activeVoices[i].channel = i + 1
                 /\ activeVoices[i].targetPitch = activeVoices[i].startPitch
                 /\ activeVoices[i].glideDurationSamples = 0
           /\ \A i, j \in 1..Len(activeVoices) :
                 i < j => activeVoices[i].startPitch < activeVoices[j].startPitch

\* C4 witness: a fresh engine took a chord of 15 notes that arrived in
\* descending pitch order, and holds 15 voices.
C4_Witness ==
    /\ FreshFirstChord
    /\ Len(Value(blk.first).notes) = MAX_VOICES
    /\ Len(activeVoices) = MAX_VOICES
    /\ Value(blk.first).notes[1].pitch > Value(blk.first).notes[2].pitch

\* C9: startTransition is called in a block only where currentChord and
\* pendingChord are both present, currentGlobalTime >= pendingChord's
\* timestamp - lookaheadSamples, and activeVoices is empty.
C9_TransitionGuard ==
    HasValue(blk.transition) =>
        LET t == Value(blk.transition)
        IN /\ HasValue(t.currentChord)
           /\ HasValue(t.pendingChord)
           /\ t.currentGlobalTime >= Value(t.pendingChord).timestamp - t.lookaheadSamples
           /\ t.activeVoices = <<>>

\* C9 witness: a block started a transition and created voices for it.
C9_Witness ==
    /\ HasValue(blk.transition)
    /\ Value(blk.transition).voices /= <<>>

\* C10: every voice created by a transition (glide duration =
\* lookaheadSamples > 0) toward a pending chord with timestamp T stops
\* gliding exactly at global sample T = glideStartTime + duration.
C10_LandsAtArrival ==
    \A l \in blk.landings : l.duration > 0 => l.at = l.due

(***************************************************************************)
(* Properties of the mapping strategies (specification MapSpec).           *)
(***************************************************************************)
AllMapPitches == {mapTarget[i] : i \in 1..Len(mapTarget)}
                 \cup {mapSource[i] : i \in 1..Len(mapSource)}

\* Every target is in exactly one target list: as many times among the
\* assigned targets as in the target list.
TargetsExactlyOnce(mapping, target) ==
    \A p \in {target[i] : i \in 1..Len(target)}
             \cup {MappingTargets(mapping)[i] : i \in 1..Len(MappingTargets(mapping))} :
        Count(MappingTargets(mapping), p) = Count(target, p)

\* C5: NearestNoteMapping::map puts every target pitch in exactly one
\* entry's target list (none lost, none in two entries).
C5_NearestCompleteness ==
    mapStrategy = "nearest" => TargetsExactlyOnce(mapResult, mapTarget)

\* C6: RandomMapping::map, whatever the random choices, puts every target
\* pitch in exactly one entry's target list: the multiset of the assigned
\* targets is the multiset of the targets given.
C6_RandomCompleteness ==
    mapStrategy = "random" =>
        \A p \in AllMapPitches \cup {MappingTargets(mapResult)[i] :
                                        i \in 1..Len(MappingTargets(mapResult))} :
            Count(MappingTargets(mapResult), p) = Count(mapTarget, p)

\* C6 witness: the random strategy was applied to more targets than
\* sources, and an entry took more than one target.
C6_Witness ==
    /\ mapStrategy = "random"
    /\ Len(mapTarget) > Len(mapSource)
    /\ \E i \in 1..Len(mapResult) : Len(mapResult[i][2]) >= 2

KeysAreSources(mapping, source) ==
    /\ Len(mapping) = Len(source)
    /\ \A i \in 1..Len(source) : mapping[i][1] = source[i]

EmptyEntries(mapping) == {i \in 1..Len(mapping) : mapping[i][2] = <<>>}

\* C7 as claimed: under both policies every source pitch is a key of the
\* mapping and no key has an empty target list.
C7_NoEmptyTargets ==
    mapStrategy /= "" =>
        /\ KeysAreSources(mapResult, mapSource)
        /\ EmptyEntries(mapResult) = {}

\* C7 amended: under both policies every source pitch is a key of the
\* mapping; under the nearest-distance policy no key has an empty target
\* list; under the random policy the keys with an empty target list are
\* exactly the last |source| - |target| ones when there are fewer targets
\* than sources, and none otherwise.
C7_KeysAndEmptyTargets ==
    mapStrategy /= "" =>
        /\ KeysAreSources(mapResult, mapSource)
        /\ mapStrategy = "nearest" => EmptyEntries(mapResult) = {}
        /\ mapStrategy = "random" =>
              EmptyEntries(mapResult) = (Len(mapTarget) + 1)..Len(mapSource)

\* C7 witness: the random strategy was applied to fewer targets than
\* sources.
C7_Witness ==
    /\ mapStrategy = "random"
    /\ Len(mapTarget) < Len(mapSource)
    /\ EmptyEntries(mapResult) /= {}

\* C8: the nearest-distance policy maps [60,64,67] to [62,65,69] one to
\* one, 60->{62}, 64->{65}, 67->{69}: three (source, target) pairs, so
\* three voices.
C8_ScenarioBMapping ==
    (mapStrategy = "nearest" /\ mapSource = ScenarioBSource /\ mapTarget = ScenarioBTarget) =>
        /\ mapResult = << <<60, <<62>> >>, <<64, <<65>> >>, <<67, <<69>> >> >>
        /\ Len(MappingPairs(mapResult)) = 3

(***************************************************************************)
(* Properties of the glides and of the pitch-bend output (Spec).           *)
(***************************************************************************)
\* The output events of the last block that signal a landing of voice v:
\* the note-ons on its channel for its target pitch.
LandingNoteOns(v) ==
    {k \in 1..Len(midiMessages) :
        /\ midiMessages[k].type = "noteOn"
        /\ midiMessages[k].channel = v.channel
        /\ midiMessages[k].data1 = v.targetPitch}

\* C11: for a voice whose start and target pitch differ, the landing is
\* signalled (note-off, note-on on the new pitch, zero pitch-bend) only at
\* the sample where the glide ends: every landing note-on of a block is at
\* a sample where the voice stopped gliding in that block.
C11_LandingSignalledOnce ==
    blk.op = "processBlock" =>
        \A i \in 1..Len(activeVoices) :
            activeVoices[i].startPitch /= activeVoices[i].targetPitch =>
                \A k \in LandingNoteOns(activeVoices[i]) :
                    \E l \in blk.landings :
                        /\ l.channel = activeVoices[i].channel
                        /\ l.at = blk.blockStart + midiMessages[k].samplePosition

PitchBendsOn(channel) ==
    {k \in 1..Len(midiMessages) :
        midiMessages[k].type = "pitchWheel" /\ midiMessages[k].channel = channel}

\* C14: the voices created for the first chord cause no pitch-bend event,
\* whatever the offset of the chord in its block.
C14_FirstChordNoBend ==
    (blk.op = "processBlock" /\ HasValue(blk.first)) =>
        \A i \in 1..Len(Value(blk.first).voices) :
            PitchBendsOn(Value(blk.first).voices[i].channel) = {}

(***************************************************************************)
(* Properties of one GlidingVoice (specification GlideSpec).               *)
(***************************************************************************)
\* Fractions <<numerator, denominator>> with positive denominators.
FracEq(a, b) == a[1] * b[2] = b[1] * a[2]
FracLeq(a, b) == a[1] * b[2] <= b[1] * a[2]

\* C12: with fixed start, target and duration > 0, as the time passed to
\* updateGlide runs from glideStartTime to glideStartTime + duration,
\* currentPitchBend is (target - start) * elapsed / duration: exactly 0 at
\* elapsed 0, exactly target - start at elapsed = duration, and monotonic
\* in between.
C12_GlideLaw ==
    blk.op = "updateGlide" =>
        LET v == activeVoices[1]
            elapsed == blk.time - v.glideStartTime
            diff == v.targetPitch - v.startPitch
        IN /\ FracEq(v.currentPitchBend, <<diff * elapsed, v.glideDurationSamples>>)
           /\ elapsed = 0 => FracEq(v.currentPitchBend, <<0, 1>>)
           /\ elapsed = v.glideDurationSamples => FracEq(v.currentPitchBend, <<diff, 1>>)
           /\ IF diff >= 0
              THEN FracLeq(blk.before.currentPitchBend, v.currentPitchBend)
              ELSE FracLeq(v.currentPitchBend, blk.before.currentPitchBend)

(***************************************************************************)
(* Pitch-bend throttling (specification LongSpec).                         *)
(***************************************************************************)
\* The pitch-bend events of a block, given by its output and its record,
\* that voice v (as the block left it) caused while it was gliding: all of
\* those on its channel if it still glides, those before its landing if it
\* landed in the block, none if it had landed before.
GlidingBends(v, messages, record) ==
    {k \in 1..Len(messages) :
        /\ record.op = "processBlock"
        /\ messages[k].type = "pitchWheel"
        /\ messages[k].channel = v.channel
        /\ \/ v.isGliding
           \/ \E l \in record.landings :
                 /\ l.channel = v.channel
                 /\ record.blockStart + messages[k].samplePosition < l.at}

SameVoice(v, w) ==
    /\ v.channel = w.channel
    /\ v.startPitch = w.startPitch
    /\ v.targetPitch = w.targetPitch
    /\ v.glideStartTime = w.glideStartTime
    /\ v.glideDurationSamples = w.glideDurationSamples

\* Two pitch bends of one gliding voice in one block.
BendsApartInBlock ==
    \A i \in 1..Len(activeVoices) :
        \A k1, k2 \in GlidingBends(activeVoices[i], midiMessages, blk) :
            k1 /= k2 =>
                Abs(midiMessages[k1].samplePosition - midiMessages[k2].samplePosition)
                    >= PITCH_BEND_UPDATE_INTERVAL

\* A pitch bend of a gliding voice in one block and one in the next block.
BendsApartAcrossBlocks ==
    \A i \in 1..Len(activeVoices), j \in 1..Len(activeVoices') :
        SameVoice(activeVoices[i], activeVoices'[j]) =>
            \A k1 \in GlidingBends(activeVoices[i], midiMessages, blk),
               k2 \in GlidingBends(activeVoices'[j], midiMessages', blk') :
                (blk'.blockStart + midiMessages'[k2].samplePosition)
                  - (blk.blockStart + midiMessages[k1].samplePosition)
                    >= PITCH_BEND_UPDATE_INTERVAL

\* C13: any two consecutive pitch-bend events a voice causes while it is
\* gliding are at least 8 samples apart in global time, within a block and
\* from one block to the next, for block sizes that are no multiples of 8.
C13_BendThrottling == []BendsApartInBlock /\ [][BendsApartAcrossBlocks]_vars

\* C13 witness: a voice sent two pitch bends while gliding, 8 samples apart,
\* in a block of a size that is no multiple of 8.
C13_Witness ==
    /\ blk.op = "processBlock"
    /\ blk.numSamples % PITCH_BEND_UPDATE_INTERVAL /= 0
    /\ \E i \in 1..Len(activeVoices) :
          \E k1, k2 \in GlidingBends(activeVoices[i], midiMessages, blk) :
              midiMessages[k2].samplePosition - midiMessages[k1].samplePosition
                  = PITCH_BEND_UPDATE_INTERVAL

(***************************************************************************)
(* Properties of handleNoteOff (specification NoteOffSpec).                *)
(***************************************************************************)
\* The voice sounds the pitch of the note-off.
Sounds(v, pitch) == v.startPitch = pitch \/ v.currentPitch = pitch

NoteOffEventsOn(channel, sample) ==
    {k \in 1..Len(midiMessages) :
        /\ midiMessages[k].type = "noteOff"
        /\ midiMessages[k].channel = channel
        /\ midiMessages[k].samplePosition = sample}

\* A note-off was handled while a chord was current.
NoteOffOnChord == blk.op = "handleNoteOff" /\ HasValue(blk.before.currentChord)

\* Every voice that sounded the pitch got a note-off at the note-off's
\* offset, lost its channel and left activeVoices.
SoundingVoicesStopped ==
    \A i \in 1..Len(blk.before.activeVoices) :
        LET v == blk.before.activeVoices[i]
        IN Sounds(v, blk.pitch) =>
              /\ NoteOffEventsOn(v.channel, blk.localSample) /= {}
              /\ ~channelUsed[v.channel - FIRST_VOICE_CHANNEL]
              /\ \A j \in 1..Len(activeVoices) : activeVoices[j].channel /= v.channel

OtherVoices == SelectSeq(blk.before.activeVoices, LAMBDA v : ~Sounds(v, blk.pitch))

\* C15 as claimed: a note-off for pitch p handled while a chord is current
\* stops every voice whose start or current pitch is p (note-off at the
\* note-off's offset, channel released, voice removed), gliding or not,
\* and keeps the voices not sounding p.
C15_NoteOffKeepsOthers ==
    NoteOffOnChord =>
        /\ SoundingVoicesStopped
        /\ activeVoices = OtherVoices

\* C15 amended: a note-off for pitch p handled while a chord is current
\* stops every voice whose start or current pitch is p (note-off at the
\* note-off's offset, channel released, voice removed), gliding or not;
\* the voices not sounding p are kept as long as currentChord keeps a
\* note, and leave activeVoices too when the note-off empties currentChord.
C15_NoteOffStopsVoices ==
    NoteOffOnChord =>
        /\ SoundingVoicesStopped
        /\ HasValue(currentChord) => activeVoices = OtherVoices
        /\ ~HasValue(currentChord) => activeVoices = <<>>

\* C15 witness: a note-off stopped a voice that was still gliding.
C15_Witness ==
    /\ NoteOffOnChord
    /\ \E i \in 1..Len(blk.before.activeVoices) :
          /\ blk.before.activeVoices[i].isGliding
          /\ Sounds(blk.before.activeVoices[i], blk.pitch)
          /\ NoteOffEventsOn(blk.before.activeVoices[i].channel, blk.localSample) /= {}

\* C16: a note-off for a pitch that is not in currentChord changes neither
\* currentChord, pendingChord, activeVoices nor the channel pool and emits
\* no event.
C16_AbsentPitchIgnored ==
    (/\ NoteOffOnChord
     /\ \A i \in 1..Len(Value(blk.before.currentChord).notes) :
           Value(blk.before.currentChord).notes[i].pitch /= blk.pitch)
    => /\ currentChord = blk.before.currentChord
       /\ pendingChord = blk.before.pendingChord
       /\ activeVoices = blk.before.activeVoices
       /\ channelUsed = blk.before.channelUsed
       /\ midiMessages = <<>>

\* The note-off took the last pitch of the current chord.
LastPitchRemoved ==
    /\ NoteOffOnChord
    /\ \A i \in 1..Len(Value(blk.before.currentChord).notes) :
          Value(blk.before.currentChord).notes[i].pitch = blk.pitch

\* C17: when a note-off removes the last pitch of currentChord, in that
\* step currentChord and pendingChord become absent and activeVoices
\* becomes empty, whatever state the engine was in.
C17_LastNoteClearsAll ==
    LastPitchRemoved =>
        /\ currentChord = Absent
        /\ pendingChord = Absent
        /\ activeVoices = <<>>

\* C17 witness: the last pitch went while a chord was queued and voices
\* were active.
C17_Witness ==
    /\ LastPitchRemoved
    /\ HasValue(blk.before.pendingChord)
    /\ blk.before.activeVoices /= <<>>
    /\ activeVoices = <<>>

(***************************************************************************)
(* Channel exhaustion (specification Spec).                                *)
(***************************************************************************)
\* The voices a block created are those of the first requests, in order,
\* on distinct channels; requests were skipped only with the pool used up;
\* the voices the block leaves hold the channels they were given.
CreatedInOrder(voices, requests) ==
    /\ Len(voices) <= Len(requests)
    /\ \A i \in 1..Len(voices) :
          /\ voices[i].startPitch = requests[i][1]
          /\ voices[i].targetPitch = requests[i][2]
          /\ voices[i].isGliding
    /\ \A i, j \in 1..Len(voices) : i /= j => voices[i].channel /= voices[j].channel
    /\ Len(voices) < Len(requests) => UsedCount(channelUsed) = MAX_VOICES
    /\ Len(activeVoices) = Len(voices)
    /\ \A i \in 1..Len(voices) : activeVoices[i].channel = voices[i].channel

FirstChordRequests ==
    LET notes == SortNotes(Value(blk.first).notes)
    IN [i \in 1..Len(notes) |-> <<notes[i].pitch, notes[i].pitch>>]

\* C18: when allocate fails while voices are created for a first chord or
\* a transition, that voice is skipped, the voices already created keep
\* their channel and glide state, and there are never more than 15 voices.
C18_ChannelExhaustion ==
    /\ Len(activeVoices) <= 15
    /\ (blk.op = "processBlock" /\ HasValue(blk.first) /\ ~HasValue(blk.transition)) =>
          CreatedInOrder(Value(blk.first).voices, FirstChordRequests)
    /\ (blk.op = "processBlock" /\ HasValue(blk.transition)) =>
          CreatedInOrder(Value(blk.transition).voices,
                         MappingPairs(Value(blk.transition).mapping))

\* C18 witness: a first chord of 16 notes got 15 voices.
C18_Witness ==
    /\ blk.op = "processBlock"
    /\ HasValue(blk.first)
    /\ Len(Value(blk.first).notes) = MAX_VOICES + 1
    /\ Len(Value(blk.first).voices) = MAX_VOICES
    /\ Len(activeVoices) = MAX_VOICES

(***************************************************************************)
(* MPEVoiceAllocator (specification AllocSpec).                            *)
(***************************************************************************)
InVoiceRange(channel) == channel >= 2 /\ channel <= 16

\* C19: allocate returns the lowest-numbered free channel in [2,16] and
\* marks exactly that channel used; it returns none if and only if all 15
\* channels were used, and then leaves the pool unchanged.
C19_AllocateLowestFree ==
    blk.op = "allocate" =>
        /\ ~HasValue(blk.result) <=> (\A c \in 2..16 : blk.before[c - 2])
        /\ ~HasValue(blk.result) => channelUsed = blk.before
        /\ HasValue(blk.result) =>
              /\ InVoiceRange(Value(blk.result))
              /\ ~blk.before[Value(blk.result) - 2]
              /\ \A c \in 2..16 : c < Value(blk.result) => blk.before[c - 2]
              /\ \A c \in 2..16 :
                    channelUsed[c - 2] = (blk.before[c - 2] \/ c = Value(blk.result))

\* C19 witness: allocate returned a free channel below a used one.
C19_Witness ==
    /\ blk.op = "allocate"
    /\ HasValue(blk.result)
    /\ \E c \in 2..16 : c > Value(blk.result) /\ blk.before[c - 2]
    /\ channelUsed[Value(blk.result) - 2]

\* C20: release of a channel outside [2,16] or of a free channel leaves the
\* pool unchanged, release of a held channel frees only that channel, and a
\* second release of the same channel changes nothing.
C20_ReleaseIdempotent ==
    blk.op = "release" =>
        /\ (~InVoiceRange(blk.channel) \/ ~blk.before[blk.channel - 2]) =>
              channelUsed = blk.before
        /\ (InVoiceRange(blk.channel) /\ blk.before[blk.channel - 2]) =>
              \A c \in 2..16 :
                  channelUsed[c - 2] = (blk.before[c - 2] /\ c /= blk.channel)
        /\ blk.repeated => channelUsed = blk.before

\* C20 witness: a channel of the range was released twice in a row while
\* other channels were held.
C20_Witness ==
    /\ blk.op = "release"
    /\ blk.repeated
    /\ InVoiceRange(blk.channel)
    /\ \E c \in 2..16 : channelUsed[c - 2]

(***************************************************************************)
(* The Chord invariant (specification Spec).                               *)
(***************************************************************************)
StrictlyAscending(chord) ==
    \A i \in 1..(Len(chord.notes) - 1) : chord.notes[i].pitch < chord.notes[i + 1].pitch

\* C21: the pitches of every chord the engine holds (currentChord and
\* pendingChord, built from groups of simultaneous note-ons) are sorted
\* ascending and contain no pitch twice.
C21_ChordSortedNoDuplicates ==
    /\ HasValue(currentChord) => StrictlyAscending(Value(currentChord))
    /\ HasValue(pendingChord) => StrictlyAscending(Value(pendingChord))

(***************************************************************************)
(* The voices of a transition (specification Spec).                        *)
(***************************************************************************)
\* C22: a transition creates one voice per (source, target) pair of the
\* mapping that gets a channel, with startPitch = source, targetPitch =
\* target, glideStartTime = pendingChord.timestamp - lookaheadSamples and
\* glideDurationSamples = lookaheadSamples; afterwards currentChord is the
\* former pendingChord and pendingChord is absent.
C22_TransitionVoices ==
    (blk.op = "processBlock" /\ HasValue(blk.transition)) =>
        LET t == Value(blk.transition)
            pairs == MappingPairs(t.mapping)
            voices == t.voices
        IN /\ Len(voices) <= Len(pairs)
           /\ Len(voices) < Len(pairs) => UsedCount(channelUsed) = 15
           /\ \A i \in 1..Len(voices) :
                 /\ voices[i].startPitch = pairs[i][1]
                 /\ voices[i].targetPitch = pairs[i][2]
                 /\ voices[i].glideStartTime =
                       Value(t.pendingChord).timestamp - t.lookaheadSamples
                 /\ voices[i].glideDurationSamples = t.lookaheadSamples
                 /\ InVoiceRange(voices[i].channel)
           /\ currentChord = t.pendingChord
           /\ pendingChord = Absent

\* C22 witness: a transition with a lookahead created voices for two pairs
\* of different pitches.
C22_Witness ==
    /\ blk.op = "processBlock"
    /\ HasValue(blk.transition)
    /\ Value(blk.transition).lookaheadSamples > 0
    /\ Len(Value(blk.transition).voices) = 2
    /\ Len(MappingPairs(Value(blk.transition).mapping)) = 2
    /\ \E i \in 1..2 : Value(blk.transition).voices[i].startPitch /=
                          Value(blk.transition).voices[i].targetPitch
    /\ currentChord = Value(blk.transition).pendingChord

(***************************************************************************)
(* Reported latency (specification ProcSpec).                              *)
(***************************************************************************)
\* C23: after every processBlock of the processor the latency reported to
\* the host equals the lookaheadSamples the engine uses for transitions.
C23_LatencyIsLookahead ==
    blk.op = "processBlock" => latencySamples = lookaheadSamples

(***************************************************************************)
(* prepare and reset (specification LifecycleSpec).                        *)
(***************************************************************************)
\* C24: prepare and reset, called in any reachable state, leave all 15
\* channels free, no active voice, an empty event buffer, no current and
\* no pending chord and currentGlobalTime 0; reset leaves sampleRate and
\* lookaheadSamples as they were, prepare sets them to its arguments.
C24_PrepareAndReset ==
    /\ blk.op \in {"resetFrom", "prepareFrom"} =>
          /\ \A i \in 0..14 : ~channelUsed[i]
          /\ activeVoices = <<>>
          /\ midiBuffer = <<>>
          /\ currentChord = <<>>
          /\ pendingChord = <<>>
          /\ currentGlobalTime = 0
    /\ blk.op = "resetFrom" =>
          /\ sampleRate = blk.before.sampleRate
          /\ lookaheadSamples = blk.before.lookaheadSamples
    /\ blk.op = "prepareFrom" =>
          /\ sampleRate = blk.rate
          /\ lookaheadSamples = blk.lookahead

\* C24 witness: reset was called with voices active, a chord pending and
\* the clock advanced, on an engine prepared with a lookahead.
C24_Witness ==
    /\ blk.op = "resetFrom"
    /\ blk.before.activeVoices /= <<>>
    /\ blk.before.pendingChord /= <<>>
    /\ blk.before.currentGlobalTime > 0
    /\ \E i \in 0..14 : blk.before.channelUsed[i]
    /\ lookaheadSamples > 0
    /\ activeVoices = <<>>

(***************************************************************************)
(* Pitch-bend encoding (specification BendSpec).                           *)
(***************************************************************************)
\* The semitones sent, as a fraction over the range: <<N, D>> with D > 0
\* and N / D = clamp(-1, 1, semitones / range).
NormalizedBend ==
    LET d == blk.semitones[2] * blk.range
        n == blk.semitones[1]
    IN <<IF n < -d THEN -d ELSE IF n > d THEN d ELSE n, d>>

\* C25: the 14-bit value emitted for a semitone value and a range >= 1 is
\* clamp(-1, 1, semitones / range) * 8192 + 8192 truncated to an integer
\* and clamped, lies in [0, 16383], and is 8192 for 0 semitones.
C25_PitchBendEncoding ==
    blk.op = "sendMidiPitchBend" =>
        /\ Len(midiMessages) = 1
        /\ midiMessages[1].type = "pitchWheel"
        /\ LET value == midiMessages[1].data1
               n == NormalizedBend[1]
               d == NormalizedBend[2]
           IN /\ value >= 0 /\ value <= 16383
              /\ blk.semitones[1] = 0 => value = 8192
              /\ \/ value * d <= 8192 * (n + d) /\ 8192 * (n + d) < (value + 1) * d
                 \/ value = 16383 /\ 8192 * (n + d) >= 16383 * d

\* C25 witness: a bend above the range was sent as 16383.
C25_Witness ==
    /\ blk.op = "sendMidiPitchBend"
    /\ blk.semitones[1] > blk.semitones[2] * blk.range
    /\ midiMessages[1].data1 = 16383

(***************************************************************************)
(* Single note-ons (specification SingleSpec).                             *)
(***************************************************************************)
NoteOnPositions(input) ==
    [k \in {i \in 1..Len(input) : input[i].isNoteOn} |-> input[k].samplePosition]

\* Every note-on of the input is alone at its sample position.
NoteOnsApart(input) ==
    /\ \E k \in 1..Len(input) : input[k].isNoteOn
    /\ \A i, j \in DOMAIN NoteOnPositions(input) :
          i /= j => NoteOnPositions(input)[i] /= NoteOnPositions(input)[j]

NoNoteOff(input) == \A k \in 1..Len(input) : input[k].isNoteOn

\* The step keeps the chords, the channel pool and the voices in
\* activeVoices (their channels and their start and target pitches).
ChordsAndVoicesKept ==
    /\ currentChord' = currentChord
    /\ pendingChord' = pendingChord
    /\ channelUsed' = channelUsed
    /\ Len(activeVoices') = Len(activeVoices)
    /\ \A i \in 1..Len(activeVoices) :
          /\ activeVoices'[i].channel = activeVoices[i].channel
          /\ activeVoices'[i].startPitch = activeVoices[i].startPitch
          /\ activeVoices'[i].targetPitch = activeVoices[i].targetPitch

\* C26 as stated: a block whose note-ons all have pairwise distinct
\* timestamps (and that holds nothing else) leaves currentChord,
\* pendingChord, the set of active voices and the channel pool unchanged.
C26_SingleNotesChangeNothing ==
    [][(NoteOnsApart(midiInput') /\ NoNoteOff(midiInput')) => ChordsAndVoicesKept]_vars

\* C26 amended: a block whose input is note-ons at pairwise distinct
\* timestamps and nothing else ends in the state and with the output of
\* the same block run with no input; it leaves currentChord, pendingChord,
\* the set of active voices and the channel pool unchanged unless it
\* starts the transition to the chord that was already pending.
C26_SingleNoteOnsLikeNoInput ==
    [][(NoteOnsApart(midiInput') /\ NoNoteOff(midiInput')) =>
          /\ processBlock(<<>>, blk'.numSamples, pitchBendRange')
          /\ pendingChord' = pendingChord => ChordsAndVoicesKept
          /\ pendingChord' /= pendingChord =>
                /\ HasValue(blk'.transition)
                /\ currentChord' = pendingChord
                /\ pendingChord' = <<>>]_vars

\* C26 witness: two note-ons at two sample positions and nothing else were
\* the input of a block run with a chord held, a chord pending and voices
\* active.
C26_Witness ==
    /\ Len(midiInput) = 2
    /\ NoteOnsApart(midiInput)
    /\ NoNoteOff(midiInput)
    /\ blk.op = "processBlock"
    /\ HasValue(currentChord)
    /\ HasValue(pendingChord)
    /\ activeVoices /= <<>>

(***************************************************************************)
(* Order of the events of a block (specification OrderSpec).               *)
(***************************************************************************)
\* C27: when the note-ons of a chord arrive at an offset of a block and a
\* note-off for one of its pitches arrives at a later offset of the same
\* block, then after the block the pitch is not in currentChord and no
\* active voice sounds it.
C27_NoteOffAfterChord ==
    \A i, j \in 1..Len(midiInput) :
        (/\ blk.op = "processBlock"
         /\ midiInput[i].isNoteOn
         /\ ~midiInput[j].isNoteOn
         /\ midiInput[j].noteNumber = midiInput[i].noteNumber
         /\ midiInput[j].samplePosition > midiInput[i].samplePosition) =>
            /\ HasValue(currentChord) => ~containsNote(Value(currentChord), midiInput[j].noteNumber)
            /\ \A v \in 1..Len(activeVoices) :
                  /\ activeVoices[v].startPitch /= midiInput[j].noteNumber
                  /\ activeVoices[v].currentPitch /= midiInput[j].noteNumber

(***************************************************************************)
(* The event buffer (specification Spec).                                  *)
(***************************************************************************)
\* C28: after every processBlock the event buffer holds no event whose
\* global timestamp is before the block's end; the events of a block are
\* gone from the buffer when the block returns, so each is examined in one
\* block only and the buffer does not grow from block to block.
C28_BufferPruned ==
    blk.op = "processBlock" =>
        /\ \A k \in 1..Len(midiBuffer) :
              midiBuffer[k].globalTimestamp >= blk.blockStart + blk.numSamples
        /\ Len(midiBuffer) = 0

\* C28 witness: a block that took in a chord's note-ons and a note-off
\* returned with the buffer empty.
C28_Witness ==
    /\ blk.op = "processBlock"
    /\ HasValue(blk.first)
    /\ Len(Value(blk.first).notes) >= 2
    /\ Len(blk.noteOffs) >= 1
    /\ midiBuffer = <<>>

(***************************************************************************)
(* Offsets of the output events (specification Spec).                      *)
(***************************************************************************)
\* C29: every event a block of size >= 1 emits (note-on, note-off,
\* pitch-bend) carries a block-local offset in [0, blockSize - 1].
C29_OffsetsInBlock ==
    (blk.op = "processBlock" /\ blk.numSamples >= 1) =>
        \A k \in 1..Len(midiMessages) :
            /\ midiMessages[k].type \in {"noteOn", "noteOff", "pitchWheel"}
            /\ midiMessages[k].samplePosition >= 0
            /\ midiMessages[k].samplePosition <= blk.numSamples - 1

\* C29 witness: a block of more than one sample emitted a note-off from a
\* note-off of its input, and events at its first and at its last sample.
C29_Witness ==
    /\ blk.op = "processBlock"
    /\ blk.numSamples >= 2
    /\ Len(blk.noteOffs) >= 1
    /\ \E k \in 1..Len(midiMessages) : midiMessages[k].type = "noteOff"
    /\ \E k \in 1..Len(midiMessages) : midiMessages[k].samplePosition = 0
    /\ \E k \in 1..Len(midiMessages) : midiMessages[k].samplePosition = blk.numSamples - 1

(***************************************************************************)
(* Ownership of the channels (specification Spec).                         *)
(***************************************************************************)
\* C30: in every reachable state each active voice holds a channel in
\* [2,16] that the allocator has marked used, no two active voices hold the
\* same channel, and no output event is on channel 1.
C30_ExclusiveChannels ==
    /\ \A i \in 1..Len(activeVoices) :
          /\ activeVoices[i].channel >= 2
          /\ activeVoices[i].channel <= 16
          /\ channelUsed[activeVoices[i].channel - 2]
    /\ \A i, j \in 1..Len(activeVoices) :
          i /= j => activeVoices[i].channel /= activeVoices[j].channel
    /\ \A k \in 1..Len(midiMessages) :
          /\ midiMessages[k].channel /= 1
          /\ midiMessages[k].channel >= 2
          /\ midiMessages[k].channel <= 16

\* C30 witness: a block left 15 active voices and emitted events.
C30_Witness ==
    /\ blk.op = "processBlock"
    /\ Len(activeVoices) = 15
    /\ \A c \in 2..16 : \E i \in 1..Len(activeVoices) : activeVoices[i].channel = c
    /\ midiMessages /= <<>>

(***************************************************************************)
(* Consistency of the chord slots (specification Spec).                    *)
(***************************************************************************)
\* C31: after every processBlock, prepare or reset, if currentChord is
\* absent then pendingChord is absent and activeVoices is empty, and if
\* currentChord is present it holds at least one note.
C31_SlotConsistency ==
    /\ currentChord = <<>> => (pendingChord = <<>> /\ activeVoices = <<>>)
    /\ currentChord /= <<>> => Len(currentChord[1].notes) >= 1

\* C31 witness: a block with a note-off returned with no current chord, no
\* pending chord and no voice, on an engine that has handed out channels.
C31_Witness ==
    /\ blk.op = "processBlock"
    /\ Len(blk.noteOffs) >= 1
    /\ currentChord = <<>>
    /\ pendingChord = <<>>
    /\ activeVoices = <<>>
    /\ currentGlobalTime > blk.numSamples
    /\ \E i \in 0..14 : channelUsed[i]

\* ---------------------------------------------------------------------
\* Glide termination under a host that keeps calling processBlock.
\* ---------------------------------------------------------------------

\* A processBlock call of one of the given sizes.
LiveBlock(sizes) ==
    /\ prepared
    /\ \E numSamples \in sizes :
         /\ currentGlobalTime + numSamples <= MaxTime
         /\ \E items \in ItemSeqs(numSamples), range \in PitchBendRanges :
              processBlock(items, numSamples, range)
    /\ UNCHANGED procVars

\* A processBlock call of zero samples, taken only while the time bound
\* still leaves room for a later call of at least one sample.
ZeroBlock ==
    /\ currentGlobalTime < MaxTime
    /\ LiveBlock({0})

\* A processBlock call of at least one sample.
HostBlock == LiveBlock(1..MaxBlock)

LiveNext == Prepare \/ Reset \/ ZeroBlock \/ HostBlock

\* A HostBlock step seen on the clock alone: of the steps of LiveNext only
\* HostBlock advances currentGlobalTime_, and it is enabled exactly when
\* this is, processBlock accepting every input.
HostAdvance ==
    /\ prepared
    /\ \E numSamples \in 1..MaxBlock :
         /\ currentGlobalTime + numSamples <= MaxTime
         /\ currentGlobalTime' = currentGlobalTime + numSamples

\* The host calls processBlock with audio again and again.
LiveSpec == Init /\ [][LiveNext]_vars /\ WF_currentGlobalTime(HostAdvance)

\* Channels of the voices followed by the termination property.
LiveChannels == FIRST_VOICE_CHANNEL..LAST_VOICE_CHANNEL

GlidingOn(c) ==
    \E i \in 1..Len(activeVoices) :
        activeVoices[i].channel = c /\ activeVoices[i].isGliding

LandedOrRemoved(c) ==
    \A i \in 1..Len(activeVoices) :
        activeVoices[i].channel = c =>
            /\ ~activeVoices[i].isGliding
            /\ activeVoices[i].currentPitch = activeVoices[i].targetPitch
            /\ activeVoices[i].currentPitchBend[1] = 0

\* A voice that has landed is not gliding after the step.
LandedStaysLanded ==
    \A i \in 1..Len(activeVoices) : \A j \in 1..Len(activeVoices') :
        (~activeVoices[i].isGliding /\ SameVoice(activeVoices[i], activeVoices'[j]))
            => ~activeVoices'[j].isGliding

\* No voice is gliding when a processBlock call of at least one sample has
\* returned: one such call is enough to land every voice.
LandedAfterHostBlock ==
    (blk.op = "processBlock" /\ blk.numSamples >= 1) =>
        \A c \in LiveChannels : LandedOrRemoved(c)

\* C32: every gliding voice stops gliding, with currentPitch = targetPitch
\* and bend 0, after finitely many processBlock calls of at least one
\* sample (one such call, in fact) unless it is removed from activeVoices
\* first; a voice that has landed never glides again.
C32_GlideTermination ==
    /\ \A c \in LiveChannels : GlidingOn(c) ~> LandedOrRemoved(c)
    /\ []LandedAfterHostBlock
    /\ [][LandedStaysLanded]_vars

\* A voice is still gliding, short of its target, when a processBlock call
\* has returned.
C32_Witness ==
    /\ blk.op = "processBlock"
    /\ \E i \in 1..Len(activeVoices) :
            /\ activeVoices[i].isGliding
            /\ activeVoices[i].startPitch /= activeVoices[i].targetPitch
            /\ activeVoices[i].currentPitch /= activeVoices[i].targetPitch

\* ---------------------------------------------------------------------
\* The engine once the clock has passed the largest int.
\* ---------------------------------------------------------------------

\* The width of int in this specification.  The int of the build has 32
\* bits and currentGlobalTime_ has 64; a clock past 2^31 - 1 is beyond the
\* integers of the checker, so the width is scaled down and the clock keeps
\* its full range.
WrapBits == 4

\* The first value of the clock that an int does not hold: INT_MAX + 1.
WrapStart == Pow2(WrapBits - 1)

\* static_cast<int>(int64_t) for an int of WrapBits bits: the value modulo
\* 2^WrapBits, in [-2^(WrapBits-1), 2^(WrapBits-1) - 1].
ToIntBits(x) == ((x + WrapStart) % Pow2(WrapBits)) - WrapStart

\* A run of processBlock calls without input on a prepared engine that
\* holds nothing, until the sum of the block sizes is INT_MAX + 1: the
\* buffers stay empty and only the clock moves.
SilentBlocks ==
    /\ prepared
    /\ blk.op = "prepare"
    /\ currentGlobalTime' = WrapStart
    /\ blk' = [OpRecord("silence") EXCEPT !.numSamples = WrapStart]
    /\ UNCHANGED <<channelUsed, activeVoices, midiBuffer, currentChord, pendingChord,
                   sampleRate, lookaheadSamples, pitchBendRange, prepared, midiMessages>>
    /\ UNCHANGED mapVars
    /\ UNCHANGED procVars

\* A processBlock call once the clock has passed INT_MAX.
WrapBlock ==
    /\ prepared
    /\ currentGlobalTime >= WrapStart
    /\ \E numSamples \in BlockSizes :
         /\ currentGlobalTime + numSamples <= WrapStart + MaxTime
         /\ \E items \in ItemSeqs(numSamples), range \in PitchBendRanges :
            \E blockStartTime \in {ToIntBits(currentGlobalTime)} :
              processBlockAt(blockStartTime, items, numSamples, range)
    /\ UNCHANGED procVars

WrapNext == Prepare \/ SilentBlocks \/ WrapBlock

WrapSpec == Init /\ [][WrapNext]_vars

\* C33: in every block the block start time that timestamps the incoming
\* events and drives the glides equals the 64-bit currentGlobalTime_, the
\* sum of the block sizes since prepare or reset, also once that sum is
\* past the largest int.
C33_BlockStartIsClock ==
    blk.op = "processBlock" => blk.blockStart = currentGlobalTime - blk.numSamples

====
